---- MODULE Spec2Model ----
(***************************************************************************)
(* Model of scripts/plex-live-session-drain.py: the live-session reaper.   *)
(* Time is counted in tenths of a second.  One state variable per object   *)
(* the program keeps across steps; the row list of one poll is a sequence  *)
(* of records, the three lease maps are functions from session key to      *)
(* time.                                                                   *)
(* Time passes inside the calls that block (a GET, the log command, the     *)
(* stop calls, a sleep, a wait, a join): the step that holds the call      *)
(* advances clock by what the call took, whether it returned or raised.    *)
(* The wait on kick_evt is the one call another thread can end: there time *)
(* passes a tenth of a second at a time, between the listener's steps.     *)
(***************************************************************************)
EXTENDS Integers, Sequences, FiniteSets, TLC

\* ------------------------------------------------------------------ bounds
MaxTime == 6      \* a watch cycle of a run without runtime limit and without listener
                  \* begins this long after the start at the latest
MaxListen == 2    \* the same, of a run with the listener
MaxCall == 1      \* longest time one GET, log command or stop loop takes on the slow server
IdleT == 2        \* the non-zero value tried for --idle-seconds
RenewT == 4       \* the non-zero value tried for --renew-lease-seconds
LeaseT == 4       \* the non-zero value tried for --lease-seconds
WaitT == 1        \* the value of --wait in one-shot mode, in whole seconds (type=int)
RunT == 1         \* the non-zero value tried for --watch-runtime
RunL == 12        \* a --watch-runtime longer than the listener's sleep
RunC == 2         \* the --watch-runtime of the runs without a listener
PollT == 2        \* the value tried for --poll in watch mode
PollL == 5        \* the value tried for --poll in one-shot mode
PollS == 0        \* a value of --poll below the floors of the wait and of the sleep
StartClock == 100 \* time.time() at program start (any value far from 0.0)

\* ------------------------------------------------------- program constants
Second == 10          \* tenths in a second: --wait counts whole seconds (type=int)
WaitFloor == 2        \* the 0.2 of kick_evt.wait(timeout=max(0.2, args.poll))
SleepFloor == 1       \* the 0.1 of time.sleep(max(0.1, args.poll))
SseWindowFloor == 30  \* the 3.0 of max(args.poll * 2.0, 3.0)
JoinTimeout == 10     \* the 1.0 of sse_thread.join(timeout=1.0)
Backoff == 10         \* the 1.0 of time.sleep(1.0) in the listener's except clauses
Poll == 1             \* --poll default, in seconds
LogLookback == 10     \* --log-lookback default, in seconds

None == 0 - 1    \* an unset value

Max(a, b) == IF a >= b THEN a ELSE b

VARIABLES
    cfg,                    \* args: the parsed command line
    pc,                     \* position of the main thread
    exit_code,              \* process exit status (None while running)
    clock,                  \* time.time()
    idle_last_activity,     \* dict key -> time
    first_seen,             \* dict key -> time
    renew_lease_last_seen,  \* dict key -> time
    sse_last_event_ts,      \* sse_last_event_ts[0]
    kick_evt,               \* threading.Event
    stop_evt,               \* threading.Event
    sse_pc,                 \* position of the listener thread in sse_notifications
    sse_conn,               \* the listener holds an open response (inside its `with`)
    event_name,             \* event_name of the listener ("" outside the `with`)
    sse_wake,               \* time.time() at which the listener's latest time.sleep(1.0)
                            \* returns (0.0 before the first)
    waited,                 \* how long the wait under way (kick_evt.wait or
                            \* sse_thread.join), or the latest one, has taken (None
                            \* before the first)
    kicked_since_fetch,     \* history: kick_evt.set() ran since the latest cycle began
    blocked_since,          \* time.time() when main last touched what the listener shares:
                            \* it has been inside calls that take time since
    listed,                 \* history: the rows parse_rows returned to the latest matches()
    rows,                   \* rows of the latest poll, as annotated by idle_annotate
    annot_now,              \* `now` of the latest idle_annotate call
    kill_rows,              \* kill_rows of the latest watch cycle
    cycle_stops,            \* stop_transcode calls of the latest cycle: <<[tid, outcome]>>
    cycle_dry,              \* WATCH_STOP_DRY lines of the latest cycle: <<tid>>
    stopped_before,         \* tids stop_transcode was called for before the latest cycle
    started,                \* `started` of the watch loop
    deadline,               \* deadline of the one-shot wait loops
    to_stop,                \* to_stop of one-shot mode
    fetch_failed,           \* history: which fetch raised in the latest step
    always_listed,          \* history: keys every poll since the first one has listed
    lost,                   \* history: tracked keys that a watch-cycle poll did not list
    reappeared_at,          \* history: key -> time it came back after being lost
    scan_row,               \* row_activity_hit: the row argument
    scan_text,              \* row_activity_hit: the logs_text argument, a list of lines
    scan_hit,               \* row_activity_hit: the value returned (None before the call)
    win_poll,               \* args.poll, in half seconds, of a stand-alone log fetch
    win_lookback,           \* args.log_lookback of a stand-alone log fetch
    win_since,              \* {since} of the log command run (None when none was run)
    loop_now,               \* `now` of line 309, while idle_annotate is under way (else None)
    annot_rows,             \* idle_annotate under way: its `rows`, annotated in place
    annot_i,                \* idle_annotate under way: the index of the row it is at
    annot_logs              \* idle_annotate under way: its logs_text

vars == <<cfg, pc, exit_code, clock, idle_last_activity, first_seen,
          renew_lease_last_seen, sse_last_event_ts, kick_evt, stop_evt, sse_pc, sse_conn, event_name,
          sse_wake, waited, kicked_since_fetch, blocked_since, listed, rows, annot_now, kill_rows, cycle_stops, cycle_dry, stopped_before,
          started, deadline, to_stop, fetch_failed, always_listed, lost, reappeared_at,
          scan_row, scan_text, scan_hit, win_poll, win_lookback, win_since,
          loop_now, annot_rows, annot_i, annot_logs>>

\* ------------------------------------------------------------ dict helpers
EmptyDict == [k \in {} |-> 0]

\* d.setdefault(k, v)
SetDefault(d, k, v) == IF k \in DOMAIN d THEN d ELSE [x \in DOMAIN d \cup {k} |-> IF x = k THEN v ELSE d[x]]

\* d[k] = v
Put(d, k, v) == [x \in DOMAIN d \cup {k} |-> IF x = k THEN v ELSE d[x]]

\* the cleanup loop left out: nothing is ever popped
PruneKeepsAll(d, active_keys) == d

\* for key in list(d): if key not in active_keys: d.pop(key, None)
Prune(d, active_keys) == [x \in DOMAIN d \cap active_keys |-> d[x]]

\* ------------------------------------------------------------------ rows
\* A string that is a path is written as the list of its "/"-separated segments:
\* <<"a", "b">> is /a/b, a last segment "" is a trailing slash, and <<>> is the
\* empty string.
\*
\* A row of parse_rows.  live_key is the whole key attribute of the Video, a path
\* that starts with /livetv/sessions/: <<"livetv", "sessions", "L1">> is
\* /livetv/sessions/L1 and <<"livetv", "sessions", "">> is /livetv/sessions/.
\* transcode_id is the last segment of the TranscodeSession key, "" when the
\* Video has none; player_addr and machine_id are "" when it has no Player or the
\* Player lacks the attribute.  log_hit and saw_activity keep what idle_annotate
\* computed for the row: the value of row_activity_hit and the local saw_activity.
RawRow(live, tid, addr, machine) ==
    [live_key |-> live, transcode_id |-> tid, player_addr |-> addr, machine_id |-> machine,
     annotated |-> FALSE, log_hit |-> FALSE, saw_activity |-> FALSE,
     idle_age |-> None, idle_ready |-> FALSE, session_age |-> None, renew_lease_age |-> None]

\* the key /livetv/sessions/<uuid>
LiveKey(uuid) == <<"livetv", "sessions", uuid>>

PlayerAddr == "10.0.0.5"
OtherAddr == "10.0.0.9"

PlayerMachine == "tv-1"
OtherMachine == "tv-2"

\* --plex-url: the default, and four other servers
Home == "http://127.0.0.1:32400"
Solo == "http://solo:32400"
Shared == "http://shared:32400"
Pair == "http://pair:32400"
Far == "http://far:32400"
Mute == "http://mute:32400"

\* The session lists /status/sessions of a server can return, in document order.
\* Home: L1 and L2, each absent or present; L1 with or without a transcode
\* session, L2 with one; two clients at two addresses.
\* Solo: L1 alone, with its transcode session, absent or present.
\* Far: L1 alone, as on Home, behind a slow link.
\* Mute: as Solo; its event-stream endpoint refuses every connection.
\* Shared: L3 and L4, each absent or present, two clients behind one address
\* that watch the same channel through one transcode session.
\* Pair: L5 with a transcode session and L6 without, two clients at two
\* addresses, both listed or neither.
Sessions(server) ==
    LET r1 == {<<>>} \cup {<<RawRow(LiveKey("L1"), t, PlayerAddr, PlayerMachine)>> : t \in {"", "T1"}}
        r2 == {<<>>} \cup {<<RawRow(LiveKey("L2"), "T2", OtherAddr, OtherMachine)>>}
        r3 == {<<>>, <<RawRow(LiveKey("L3"), "T3", PlayerAddr, PlayerMachine)>>}
        r4 == {<<>>, <<RawRow(LiveKey("L4"), "T3", PlayerAddr, OtherMachine)>>}
    IN  CASE server = Home -> {a \o b : a \in r1, b \in r2}
          [] server = Solo -> {<<>>, <<RawRow(LiveKey("L1"), "T1", PlayerAddr, PlayerMachine)>>}
          [] server = Far -> r1
          [] server = Mute -> {<<>>, <<RawRow(LiveKey("L1"), "T1", PlayerAddr, PlayerMachine)>>}
          [] server = Shared -> {a \o b : a \in r3, b \in r4}
          [] server = Pair ->
                {<<>>, <<RawRow(LiveKey("L5"), "T5", PlayerAddr, PlayerMachine),
                         RawRow(LiveKey("L6"), "", OtherAddr, OtherMachine)>>}

\* key = r["transcode_id"] or r["live_key"].  A dict key is written as a list of
\* segments as well: <<tid>> is the transcode id tid (an id holds no "/" and a
\* live key starts with one, so the two never meet), <<>> is the empty key.
Key(r) == IF r.transcode_id # "" THEN <<r.transcode_id>> ELSE r.live_key

NoKey == <<>>

\* the keys of the rows that have one (`if key:`)
RowKeys(rs) == {Key(rs[i]) : i \in 1..Len(rs)} \ {NoKey}

\* ------------------------------------------------------------- log lines
\* A request path is a list of segments as above; <<"">> is "/".
\* A log line is [addr, path]: addr is the a.b.c.d of a leading "[a.b.c.d:port ...]"
\* or NoAddr when the line has no such prefix; path is the first token after the
\* method, or <<>> when the line ends before it.
NoAddr == "-"

Line(addr, path) == [addr |-> addr, path |-> path]

\* _REQ_RE.search(line) is not None: a bracketed IPv4:port, a method, and a path
\* of "/" followed by at least one more character
ReqMatch(line) == line.addr # NoAddr /\ line.path # <<>> /\ line.path # <<"">>

\* f"/{'/'.join(frag)}/" in path: the segments of frag in a row, then one more "/"
Contains(path, frag) ==
    \E i \in 1..Len(path) :
        /\ i + Len(frag) <= Len(path)
        /\ \A j \in 1..Len(frag) : path[i + j - 1] = frag[j]

\* live_uuid = row.get("live_key", "").rsplit("/", 1)[-1]
live_uuid(r) == IF r.live_key = <<>> THEN "" ELSE r.live_key[Len(r.live_key)]

\* f"/livetv/sessions/{live_uuid}/" if live_uuid else ""
live_path_fragment(r) ==
    IF live_uuid(r) # "" THEN <<"livetv", "sessions", live_uuid(r)>> ELSE <<>>

\* f"/transcode/universal/session/{transcode_id}/"
transcode_path(r) == <<"transcode", "universal", "session", r.transcode_id>>

\* the segments that begin with "timeline"
TimelineSegments == {"timeline", "timeline?state=playing"}

\* path.startswith("/:/timeline")
IsTimeline(path) == Len(path) >= 2 /\ path[1] = ":" /\ path[2] \in TimelineSegments

\* path.endswith("/start.mpd")
IsStartMpd(path) == Len(path) >= 1 /\ path[Len(path)] = "start.mpd"

\* the player_ip tests left out of the two generic-endpoint rules
LineHitAnyAddr(r, line) ==
    /\ ReqMatch(line)
    /\ \/ live_path_fragment(r) # <<>> /\ Contains(line.path, live_path_fragment(r))
       \/ r.transcode_id # "" /\ Contains(line.path, transcode_path(r))
       \/ IsTimeline(line.path)
       \/ IsStartMpd(line.path)

\* the body of `for line in logs_text.splitlines()`: TRUE when it returns True
LineHit(r, line) ==
    /\ ReqMatch(line)
    /\ \/ live_path_fragment(r) # <<>> /\ Contains(line.path, live_path_fragment(r))
       \/ r.transcode_id # "" /\ Contains(line.path, transcode_path(r))
       \/ r.player_addr # "" /\ line.addr = r.player_addr /\ IsTimeline(line.path)
       \/ r.player_addr # "" /\ line.addr = r.player_addr /\ IsStartMpd(line.path)

\* logs_text is the sequence of its lines
row_activity_hit(r, logs_text) == \E i \in 1..Len(logs_text) : LineHit(r, logs_text[i])

\* A segment request for a live session, and one for a transcode session.
LiveLine(uuid) == Line(OtherAddr, <<"livetv", "sessions", uuid, "index.m3u8">>)
TranscodeLine(tid) ==
    Line(OtherAddr, <<"video", ":", "transcode", "universal", "session", tid, "base",
                      "index.m3u8">>)

\* The log text that names the sessions of ids, in the order of the rows.
RECURSIVE TextNaming(_, _, _)
TextNaming(raw, i, ids) ==
    IF i > Len(raw) THEN <<>>
    ELSE (IF live_uuid(raw[i]) \in ids THEN <<LiveLine(live_uuid(raw[i]))>> ELSE <<>>)
         \o (IF raw[i].transcode_id \in ids THEN <<TranscodeLine(raw[i].transcode_id)>>
             ELSE <<>>)
         \o TextNaming(raw, i + 1, ids)

\* The log texts one fetch can return for these rows: for every set of their
\* live sessions and transcode sessions, the text with one request line for each.
LogTexts(raw) ==
    {TextNaming(raw, 1, ids) :
        ids \in SUBSET (({live_uuid(raw[i]) : i \in 1..Len(raw)} \ {""})
                        \cup ({raw[i].transcode_id : i \in 1..Len(raw)} \ {""}))}

\* r.get("_idle_age", 0.0) and friends
GetIdleAge(r) == IF r.annotated THEN r.idle_age ELSE 0
GetSessionAge(r) == IF r.annotated THEN r.session_age ELSE 0
GetRenewLeaseAge(r) == IF r.annotated THEN r.renew_lease_age ELSE 0
GetIdleReady(r) == IF r.annotated THEN r.idle_ready ELSE FALSE

\* --------------------------------------------------------- idle_annotate
track_activity == cfg.idle_seconds > 0 \/ cfg.renew_lease_seconds > 0

\* a window of no width: only an event at `now` itself counts
SseFreshAtOnce(now) == cfg.sse /\ (now - sse_last_event_ts) <= 0

\* args.sse and (now - sse_last_event_ts[0]) <= max(args.poll * 2.0, 3.0)
sse_fresh(now) == cfg.sse /\ (now - sse_last_event_ts) <= Max(cfg.poll * 2, SseWindowFloor)

\* the listener's timestamp left out of the evidence
SawActivityLogsOnly(r, logs_text, now) == row_activity_hit(r, logs_text)

\* saw_activity of one row
SawActivity(r, logs_text, now) == row_activity_hit(r, logs_text) \/ sse_fresh(now)

\* plain assignment of idle_last_activity where the code has setdefault
ObserveResets(st, key, now) ==
    [ila |-> Put(st.ila, key, now),
     fs  |-> SetDefault(st.fs, key, now),
     rls |-> SetDefault(st.rls, key, now)]

\* the three setdefault calls: a record for a key seen for the first time
Observe(st, key, now) ==
    [ila |-> SetDefault(st.ila, key, now),
     fs  |-> SetDefault(st.fs, key, now),
     rls |-> SetDefault(st.rls, key, now)]

\* activity that renews the idle timestamp alone
MarkActiveIdleOnly(st, key, now) ==
    [ila |-> Put(st.ila, key, now), fs |-> st.fs, rls |-> st.rls]

\* activity that also restarts first_seen
MarkActiveResetsFirstSeen(st, key, now) ==
    [ila |-> Put(st.ila, key, now), fs |-> Put(st.fs, key, now), rls |-> Put(st.rls, key, now)]

\* if saw_activity: idle_last_activity[key] = now; renew_lease_last_seen[key] = now
MarkActive(st, key, now) ==
    [ila |-> Put(st.ila, key, now), fs |-> st.fs, rls |-> Put(st.rls, key, now)]

\* r["_idle_ready"] = r["_idle_age"] >= args.idle_seconds
IdleReadyAt(idle_age) == idle_age >= cfg.idle_seconds

\* the body of `for r in rows` for one row: the new dicts and the annotated row
AnnotateRow(st, r, now, logs_text) ==
    LET key == Key(r) IN
    IF key = NoKey THEN [st |-> st, row |-> r]
    ELSE
      LET st1 == Observe(st, key, now)
          saw == SawActivity(r, logs_text, now)
          st2 == IF saw THEN MarkActive(st1, key, now) ELSE st1
          ia  == Max(0, now - st2.ila[key])
      IN  [st  |-> st2,
           row |-> [r EXCEPT !.annotated = TRUE,
                             !.log_hit = row_activity_hit(r, logs_text),
                             !.saw_activity = saw,
                             !.idle_age = ia,
                             !.idle_ready = IdleReadyAt(ia),
                             !.session_age = Max(0, now - st2.fs[key]),
                             !.renew_lease_age = Max(0, now - st2.rls[key])]]

\* The annotation of row r reads sse_last_event_ts[0] (line 263): the row has a
\* key, the scanner found nothing for it, and --sse is given.
ReadsEventTs(r, text) == Key(r) # NoKey /\ ~row_activity_hit(r, text) /\ cfg.sse

\* `for r in rows`, from row i on, the rows annotated in place.  The timestamp the
\* listener thread writes is read once per row, and the listener may write it
\* between two reads: one step of the main thread makes `reads` reads of it at
\* most and stops in front of the row that needs one more (next is its index,
\* Len(rs) + 1 when the loop is over).
RECURSIVE AnnotateFrom(_, _, _, _, _, _)
AnnotateFrom(rs, i, st, reads, now, text) ==
    IF i > Len(rs) \/ (reads = 0 /\ ReadsEventTs(rs[i], text))
    THEN [rows |-> rs, next |-> i, ila |-> st.ila, fs |-> st.fs, rls |-> st.rls]
    ELSE LET a == AnnotateRow(st, rs[i], now, text)
         IN  AnnotateFrom([rs EXCEPT ![i] = a.row], i + 1, a.st,
                          IF ReadsEventTs(rs[i], text) THEN reads - 1 ELSE reads,
                          now, text)

\* idle_annotate(rows) from row i on, once `now` was read and fetch_pms_logs has
\* returned text
idle_annotate(rs, i, reads, now, text) ==
    LET st == [ila |-> idle_last_activity, fs |-> first_seen, rls |-> renew_lease_last_seen] IN
    IF ~track_activity
    THEN [rows |-> rs, next |-> Len(rs) + 1, ila |-> st.ila, fs |-> st.fs, rls |-> st.rls]
    ELSE AnnotateFrom(rs, i, st, reads, now, text)

\* The log texts one call can meet: nothing is fetched when tracking is off.
LogInputs(raw) == IF track_activity THEN LogTexts(raw) ELSE {<<>>}

\* ------------------------------------------------- the watch-cycle decision
lease_ready(r) == cfg.lease_seconds > 0 /\ GetSessionAge(r) >= cfg.lease_seconds

renew_lease_ready(r) ==
    cfg.renew_lease_seconds > 0 /\ GetRenewLeaseAge(r) >= cfg.renew_lease_seconds

idle_ready(r) == IF cfg.idle_seconds > 0 THEN GetIdleReady(r) ELSE FALSE

KillReady(r) == idle_ready(r) \/ renew_lease_ready(r) \/ lease_ready(r)

KillRows(rs) == SelectSeq(rs, KillReady)

\* a stop for every row, without the `continue`
DedupTidsKeepsAll(rs, i, tids) == [j \in 1..Len(rs) |-> rs[j].transcode_id]

\* seen = set(); for r in ...: tid = r["transcode_id"]; if not tid or tid in seen: continue
RECURSIVE DedupTids(_, _, _)
DedupTids(rs, i, tids) ==
    IF i > Len(rs) THEN tids
    ELSE LET tid == rs[i].transcode_id
             seen == {tids[j] : j \in 1..Len(tids)}
         IN  IF tid = "" \/ tid \in seen
             THEN DedupTids(rs, i + 1, tids)
             ELSE DedupTids(rs, i + 1, Append(tids, tid))

\* What one stop_transcode call can do: return 200, return an HTTP error status
\* (plex_put catches HTTPError), or raise (URLError / timeout are not caught).
Outcomes == {"ok", "http_error", "raise"}

\* The calls made for tids in order: an exception ends the loop.
RECURSIVE StopCalls(_, _, _, _)
StopCalls(tids, out, i, calls) ==
    IF i > Len(tids) THEN calls
    ELSE LET c == [tid |-> tids[i], outcome |-> out[tids[i]]]
         IN  IF c.outcome = "raise" THEN Append(calls, c)
             ELSE StopCalls(tids, out, i + 1, Append(calls, c))

Raised(calls) == \E i \in 1..Len(calls) : calls[i].outcome = "raise"

CallTids(calls) == {calls[i].tid : i \in 1..Len(calls)}

SeqSet(s) == {s[i] : i \in 1..Len(s)}


\* ------------------------------------------------------------------ state
Configs ==
    [idle_seconds : {0, IdleT}, renew_lease_seconds : {0, RenewT},
     lease_seconds : {0, LeaseT}, pms_log_cmd : BOOLEAN, watch : BOOLEAN,
     sse : BOOLEAN, dry_run : BOOLEAN, watch_runtime : {0, RunT, RunC, RunL}, wait : {WaitT},
     poll : {PollS, PollT, PollL},
     player_ip : {"", PlayerAddr}, machine_id : {"", PlayerMachine},
     plex_url : {Home, Solo, Shared, Pair, Far, Mute}]

\* parse_rows(plex_get(args.plex_url, ...)): what one call can return
PollResults == Sessions(cfg.plex_url)

\* the --machine-id test left out of the row filter
RowMatchesAddrOnly(r) == cfg.player_ip = "" \/ r.player_addr = cfg.player_ip

\* the row filter of matches(): --machine-id and --player-ip, when given, must be
\* the row's machine id and address
RowMatches(r) ==
    /\ cfg.machine_id = "" \/ r.machine_id = cfg.machine_id
    /\ cfg.player_ip = "" \/ r.player_addr = cfg.player_ip

\* matches(), for the session list p that parse_rows returned
matches(p) == SelectSeq(p, RowMatches)

\* What matches() can return.
Matches == {matches(p) : p \in PollResults}

leases == <<idle_last_activity, first_seen, renew_lease_last_seen>>
sse_state == <<sse_last_event_ts, kick_evt>>
sse_thread == <<sse_pc, sse_conn, event_name, sse_wake>>
waits == <<waited, kicked_since_fetch, blocked_since>>
stops == <<cycle_stops, cycle_dry, stopped_before>>
hist == <<always_listed, lost, reappeared_at>>
polled == <<listed, rows, annot_now, kill_rows>>
scan == <<scan_row, scan_text, scan_hit>>
window == <<win_poll, win_lookback, win_since>>
annot == <<loop_now, annot_rows, annot_i, annot_logs>>

\* No call of idle_annotate is under way.
NoAnnot ==
    /\ loop_now = None
    /\ annot_rows = <<>>
    /\ annot_i = 0
    /\ annot_logs = <<>>

\* The state main() starts from, apart from the command line.
Fresh ==
    /\ exit_code = None
    /\ clock = StartClock
    /\ idle_last_activity = EmptyDict
    /\ first_seen = EmptyDict
    /\ renew_lease_last_seen = EmptyDict
    /\ sse_last_event_ts = 0
    /\ kick_evt = FALSE
    /\ stop_evt = FALSE
    /\ sse_pc = "off"
    /\ sse_conn = FALSE
    /\ event_name = ""
    /\ sse_wake = 0
    /\ waited = None
    /\ kicked_since_fetch = FALSE
    /\ blocked_since = StartClock
    /\ listed = <<>>
    /\ rows = <<>>
    /\ annot_now = StartClock
    /\ kill_rows = <<>>
    /\ cycle_stops = <<>>
    /\ cycle_dry = <<>>
    /\ stopped_before = {}
    /\ started = None
    /\ deadline = None
    /\ to_stop = <<>>
    /\ fetch_failed = "none"
    /\ always_listed = {}
    /\ lost = {}
    /\ reappeared_at = EmptyDict
    /\ NoAnnot

\* No stand-alone call of row_activity_hit is under way.
NoScan ==
    /\ scan_row = RawRow(LiveKey("L1"), "", "", "")
    /\ scan_text = <<>>
    /\ scan_hit = None

\* No stand-alone log fetch is under way: --poll and --log-lookback at their
\* defaults.
NoWindow ==
    /\ win_poll = 2 * Poll
    /\ win_lookback = LogLookback
    /\ win_since = None

Init ==
    /\ cfg \in Configs
    /\ pc = "start"
    /\ Fresh
    /\ NoScan
    /\ NoWindow

InWatchLoop == pc \in {"watch_loop", "watch_annotate", "watch_clear", "watch_waiting"}

\* The listener thread was started and has not returned.
sse_running == sse_pc \notin {"off", "done", "killed"}

\* The watch loop is left while a listener thread exists: the `finally` of line
\* 379 has stop_evt.set() and the join still to run, and the listener runs on
\* until then.
ToFinally == InWatchLoop /\ sse_pc # "off"

\* An exception nobody catches leaves main.  Inside the watch loop it reaches the
\* `finally`: with a listener thread that is the next step of main, without one
\* stop_evt.set() is the last thing the process does.
Uncaught(which) ==
    /\ fetch_failed' = which
    /\ IF ToFinally
       THEN /\ pc' = "finally_raise"
            /\ UNCHANGED <<exit_code, stop_evt>>
       ELSE /\ pc' = "crashed"
            /\ exit_code' = 1
            /\ stop_evt' = (stop_evt \/ InWatchLoop)
    /\ UNCHANGED sse_thread

\* How long one call to the server's host can take (urlopen and subprocess.run
\* have a timeout, and block as long whether they return or raise): Far takes up
\* to MaxCall, the other servers answer within the tenth of a second.
GetDelays(server) == IF server = Far THEN 0..MaxCall ELSE {0}

\* How long the GET of one matches() call can take.
GetTimes == GetDelays(cfg.plex_url)

\* How long the log command of one fetch_pms_logs call can take: it reads the log
\* of the server's host, so as long as a GET; no time when no log is fetched.
LogTimes == {h \in GetDelays(cfg.plex_url) : h > 0 => track_activity}

\* How long the stop calls of one pass take together.
StopTimes(calls) == {t \in GetDelays(cfg.plex_url) : t > 0 => calls # <<>>}

\* plex_get raised inside matches() (urlopen, or the XML parser), once the GET
\* had taken its time: nothing was assigned since the call.  The listener has
\* run during the call when the `finally` is still to come.
FetchRaises(which) ==
    /\ Uncaught(which)
    /\ \E g \in GetTimes :
        /\ clock' = clock + g
        /\ blocked_since' = IF ToFinally THEN clock ELSE clock + g
    /\ UNCHANGED <<cfg, scan, window, annot, waited, kicked_since_fetch, leases, sse_state, polled,
                   stops, started, deadline, to_stop, hist>>

\* subprocess.run raised inside fetch_pms_logs (line 83: TimeoutExpired, OSError),
\* once the command had taken its time.  This is the second fetch of
\* idle_annotate(matches()): matches() has returned and idle_annotate has read
\* `now` (line 251); no dict was touched.  Only runs that track activity fetch
\* logs.
LogsRaise(now) ==
    /\ track_activity
    /\ Uncaught("logs")
    /\ \E h \in LogTimes :
        /\ clock' = now + h
        /\ blocked_since' = IF ToFinally THEN clock ELSE now + h
    /\ UNCHANGED <<cfg, scan, window, annot, waited, kicked_since_fetch, leases, sse_state, kill_rows,
                   stops, started, deadline, to_stop, hist>>

\* --renew-lease-seconds left out of the --pms-log-cmd check
ConfigErrorIdleOnly ==
    \/ cfg.idle_seconds > 0 /\ ~cfg.pms_log_cmd
    \/ cfg.sse /\ ~cfg.watch

\* ap.error(...) checks after parse_args
ConfigError ==
    \/ (cfg.idle_seconds > 0 \/ cfg.renew_lease_seconds > 0) /\ ~cfg.pms_log_cmd
    \/ cfg.sse /\ ~cfg.watch

Start ==
    /\ pc = "start"
    /\ pc' = IF ConfigError THEN "usage_error" ELSE "seed"
    /\ exit_code' = IF ConfigError THEN 2 ELSE None
    /\ UNCHANGED <<cfg, scan, window, annot, waits, clock, leases, sse_state, stop_evt, sse_thread, polled, stops,
                   started, deadline, to_stop, fetch_failed, hist>>

\* idle_last_activity[key] = now; first_seen.setdefault(key, now); renew_... = now
SeedDict(d, keys, now, overwrite) ==
    [k \in DOMAIN d \cup keys |->
        IF k \in keys /\ (overwrite \/ k \notin DOMAIN d) THEN now ELSE d[k]]

\* The seed of the three dicts: `now` is read (line 239) before matches() is
\* called (line 240), whose GET takes its time.
Seed ==
    /\ pc = "seed"
    /\ IF ~track_activity
       THEN /\ pc' = "first_poll"
            /\ UNCHANGED <<cfg, scan, window, annot, waits, exit_code, clock, leases, sse_state, stop_evt, sse_thread,
                           polled, stops, started, deadline, to_stop, fetch_failed, hist>>
       ELSE \/ FetchRaises("sessions")
            \/ \E p \in PollResults : \E raw \in {matches(p)} : \E g \in GetTimes :
                /\ listed' = p
                /\ clock' = clock + g
                /\ idle_last_activity' = SeedDict(idle_last_activity, RowKeys(raw), clock, TRUE)
                /\ first_seen' = SeedDict(first_seen, RowKeys(raw), clock, FALSE)
                /\ renew_lease_last_seen' =
                       SeedDict(renew_lease_last_seen, RowKeys(raw), clock, TRUE)
                /\ pc' = "first_poll"
                /\ fetch_failed' = "none"
                /\ UNCHANGED <<cfg, scan, window, annot, waits, exit_code, sse_state, stop_evt, sse_thread,
                               rows, annot_now, kill_rows, stops, started, deadline, to_stop,
                               hist>>

\* rows = matches(); rows = idle_annotate(rows); the LIVE lines, and the choice of
\* mode.  No other thread runs yet, so idle_annotate is one step.  The GET of
\* matches() takes its time before idle_annotate reads `now`; the listener is
\* started, and `started` (line 306) and the one-shot deadline (line 386) are
\* read, after the log command.
FirstPoll ==
    /\ pc = "first_poll"
    /\ \/ FetchRaises("sessions")
       \/ \E p \in PollResults : \E raw \in {matches(p)} :
          \E now \in {clock + g : g \in GetTimes} :
            /\ listed' = p
            /\ annot_now' = now
            /\ \/ /\ LogsRaise(now)
                  /\ rows' = raw
               \/ \E text \in LogInputs(raw) :
                  \E a \in {idle_annotate(raw, 1, Len(raw), now, text)} :
                  \E after \in {now + h : h \in LogTimes} :
                    /\ clock' = after
                    /\ blocked_since' = after
                    /\ idle_last_activity' = a.ila
                    /\ first_seen' = a.fs
                    /\ renew_lease_last_seen' = a.rls
                    /\ rows' = a.rows
                    /\ always_listed' = RowKeys(raw)
                    /\ fetch_failed' = "none"
                    /\ IF cfg.dry_run /\ ~cfg.watch
                       THEN /\ pc' = "exited"
                            /\ exit_code' = 0
                            /\ UNCHANGED <<sse_thread, started, deadline, to_stop>>
                       ELSE IF cfg.watch
                       THEN /\ pc' = "watch_loop"
                            /\ sse_pc' = IF cfg.sse THEN "top" ELSE "off"
                            /\ UNCHANGED <<sse_conn, event_name, sse_wake>>
                            /\ started' = after
                            /\ UNCHANGED <<exit_code, deadline, to_stop>>
                       ELSE /\ to_stop' = a.rows
                            /\ IF cfg.idle_seconds > 0
                               THEN /\ pc' = "wait_idle"
                                    /\ deadline' = after + Second * Max(0, cfg.wait)
                               ELSE /\ pc' = "stop_once"
                                    /\ UNCHANGED deadline
                            /\ UNCHANGED <<exit_code, sse_thread, started>>
                    /\ UNCHANGED <<cfg, scan, window, annot, waited, kicked_since_fetch, sse_state,
                                   stop_evt, kill_rows, stops, lost, reappeared_at>>

\* ------------------------------------------------------------- watch mode
\* the dry-run test left out
WatchStopCallsAlways(tids, out) == StopCalls(tids, out, 1, <<>>)

\* if args.dry_run: print WATCH_STOP_DRY  else: stop_transcode(...)
WatchStopCalls(tids, out) == IF cfg.dry_run THEN <<>> ELSE StopCalls(tids, out, 1, <<>>)

WatchDryLines(tids) == IF cfg.dry_run THEN tids ELSE <<>>

\* a strict comparison with the runtime limit
RuntimeOverStrict(now) == cfg.watch_runtime > 0 /\ (now - started) > cfg.watch_runtime

\* if args.watch_runtime > 0 and (now - started) >= args.watch_runtime
RuntimeOver(now) == cfg.watch_runtime > 0 /\ (now - started) >= cfg.watch_runtime

\* idle_annotate has stopped in front of a row that reads the listener's
\* timestamp: the dicts and the rows annotated so far are kept, nothing else of
\* the cycle has happened yet.
CyclePaused(a) ==
    /\ pc' = "watch_annotate"
    /\ idle_last_activity' = a.ila
    /\ first_seen' = a.fs
    /\ renew_lease_last_seen' = a.rls
    /\ annot_rows' = a.rows
    /\ annot_i' = a.next
    /\ fetch_failed' = "none"
    /\ blocked_since' = clock
    /\ UNCHANGED <<cfg, scan, window, waited, kicked_since_fetch, exit_code, sse_state, stop_evt,
                   sse_thread, rows, kill_rows, stops, started, deadline, to_stop, hist>>

\* Lines 310-375 once idle_annotate has returned a, at time `at`: `rows` is
\* assigned, then the WATCH lines, the cleanup of the dicts, the decision, the stop
\* calls, which take their time, and the runtime test on the `now` that line 309
\* read at the start of the cycle; annotated_at is the `now` of idle_annotate
\* (line 251).  An exception of a stop call and the runtime exit reach the
\* `finally`: the next step of main when there is a listener thread, which has
\* run during the calls of this one.
CycleEnd(a, now, annotated_at, at) ==
    \E active_keys \in {RowKeys(a.rows)} :
    \E kill \in {KillRows(a.rows)} :
    \E tids \in {DedupTids(kill, 1, <<>>)} :
    \E out \in [SeqSet(tids) -> Outcomes] :
    \E calls \in {WatchStopCalls(tids, out)} :
    \E after \in {at + t : t \in StopTimes(calls)} :
        /\ idle_last_activity' = Prune(a.ila, active_keys)
        /\ first_seen' = Prune(a.fs, active_keys)
        /\ renew_lease_last_seen' = Prune(a.rls, active_keys)
        /\ rows' = a.rows
        /\ kill_rows' = kill
        /\ cycle_stops' = calls
        /\ cycle_dry' = WatchDryLines(tids)
        /\ stopped_before' = stopped_before \cup CallTids(cycle_stops)
        /\ always_listed' = always_listed \cap active_keys
        /\ lost' = (lost \ active_keys) \cup (DOMAIN first_seen \ active_keys)
        /\ reappeared_at' =
               [k \in (DOMAIN reappeared_at \cup lost) \cap active_keys |->
                   IF k \in lost THEN annotated_at ELSE reappeared_at[k]]
        /\ loop_now' = None
        /\ annot_rows' = <<>>
        /\ annot_i' = 0
        /\ annot_logs' = <<>>
        /\ clock' = after
        /\ IF Raised(calls)
           THEN /\ Uncaught("none")
                /\ blocked_since' = IF ToFinally THEN clock ELSE after
           ELSE /\ fetch_failed' = "none"
                /\ IF RuntimeOver(now)
                   THEN /\ IF ToFinally
                           THEN /\ pc' = "finally_return"
                                /\ blocked_since' = clock
                                /\ UNCHANGED <<exit_code, stop_evt>>
                           ELSE /\ pc' = "exited"
                                /\ exit_code' = 0
                                /\ stop_evt' = TRUE
                                /\ blocked_since' = after
                        /\ UNCHANGED sse_thread
                   ELSE /\ pc' = "watch_clear"
                        /\ blocked_since' = clock
                        /\ UNCHANGED <<exit_code, stop_evt, sse_thread>>
        /\ UNCHANGED <<cfg, scan, window, waited, kicked_since_fetch, sse_state, started, deadline,
                       to_stop>>

\* The run time explored: a pass of the watch loop of a run that no runtime limit
\* ends begins MaxTime, with the listener MaxListen, after the start at the latest.
CycleFits ==
    cfg.watch_runtime = 0 => clock <= StartClock + (IF cfg.sse THEN MaxListen ELSE MaxTime)

\* One pass of `while True` from `now = time.time()` (line 309): the GET of
\* matches() takes its time, idle_annotate reads `now` again (line 251) and
\* fetches the logs, which takes its time, and the pass goes on to line 377, or
\* to the first row for which idle_annotate reads the listener's timestamp: the
\* step ends in front of that read.
WatchCycle ==
    /\ pc = "watch_loop"
    /\ CycleFits
    /\ \/ FetchRaises("sessions")
       \/ \E p \in PollResults : \E raw \in {matches(p)} :
          \E now \in {clock + g : g \in GetTimes} :
            /\ listed' = p
            /\ annot_now' = now
            /\ \/ /\ LogsRaise(now)
                  /\ UNCHANGED rows
               \/ \E text \in LogInputs(raw) :
                  \E after \in {now + h : h \in LogTimes} :
                  \E a \in {idle_annotate(raw, 1, 0, now, text)} :
                    IF a.next <= Len(raw)
                    THEN /\ CyclePaused(a)
                         /\ loop_now' = clock
                         /\ annot_logs' = text
                         /\ clock' = after
                    ELSE CycleEnd(a, clock, now, after)

\* idle_annotate reads the listener's timestamp for the row it stopped at
\* (line 263) and goes on, to the end of the pass or to the next read.
WatchResume ==
    /\ pc = "watch_annotate"
    /\ \E a \in {idle_annotate(annot_rows, annot_i, 1, annot_now, annot_logs)} :
         IF a.next <= Len(annot_rows)
         THEN /\ CyclePaused(a)
              /\ UNCHANGED <<loop_now, annot_logs, clock>>
         ELSE CycleEnd(a, loop_now, annot_now, clock)
    /\ UNCHANGED <<listed, annot_now>>

\* kick_evt.clear(); the wait of line 378 begins
WatchClear ==
    /\ pc = "watch_clear"
    /\ kick_evt' = FALSE
    /\ pc' = "watch_waiting"
    /\ blocked_since' = clock
    /\ waited' = 0
    /\ UNCHANGED <<cfg, scan, window, annot, kicked_since_fetch, exit_code, clock, leases,
                   sse_last_event_ts, stop_evt, sse_thread, polled, stops, started, deadline,
                   to_stop, fetch_failed, hist>>

\* the timeout of kick_evt.wait(timeout=max(0.2, args.poll))
WaitTimeout == Max(WaitFloor, cfg.poll)

\* a wait without a timeout: only a kick ends it
WaitOverNoTimeout == kick_evt

\* kick_evt.wait returns: the event is set, or the timeout has passed
WaitOver == kick_evt \/ waited >= WaitTimeout

\* A tenth of a second passes while main is inside kick_evt.wait and the event is
\* clear.  What the listener does meanwhile happens at the time it has become.
Tick ==
    /\ pc = "watch_waiting"
    /\ ~WaitOver
    /\ clock' = clock + 1
    /\ waited' = waited + 1
    /\ blocked_since' = clock + 1
    /\ UNCHANGED <<cfg, scan, window, annot, kicked_since_fetch, pc, exit_code, leases, sse_state,
                   stop_evt, sse_thread, polled, stops, started, deadline, to_stop,
                   fetch_failed, hist>>

\* The wait returns and the loop goes back to `now = time.time()`: the next cycle
\* begins.
WatchWait ==
    /\ pc = "watch_waiting"
    /\ WaitOver
    /\ kicked_since_fetch' = FALSE
    /\ blocked_since' = clock
    /\ pc' = "watch_loop"
    /\ UNCHANGED <<cfg, scan, window, annot, waited, exit_code, clock, leases, sse_state, stop_evt,
                   sse_thread, polled, stops, started, deadline, to_stop, fetch_failed, hist>>

\* finally: stop_evt.set() (line 380), with a listener thread to join
Finally ==
    /\ pc \in {"finally_return", "finally_raise"}
    /\ stop_evt' = TRUE
    /\ pc' = IF pc = "finally_return" THEN "join_return" ELSE "join_raise"
    /\ blocked_since' = clock
    /\ waited' = 0
    /\ UNCHANGED <<cfg, scan, window, annot, kicked_since_fetch, exit_code, clock, leases,
                   sse_state, sse_thread, polled, stops, started, deadline, to_stop,
                   fetch_failed, hist>>

\* sse_thread.join(timeout=1.0) returns: the thread has ended, or the timeout has
\* passed
JoinOver == sse_pc = "done" \/ waited >= JoinTimeout

\* A tenth of a second passes while main is inside sse_thread.join and the
\* listener is still running.
JoinTick ==
    /\ pc \in {"join_return", "join_raise"}
    /\ ~JoinOver
    /\ clock' = clock + 1
    /\ waited' = waited + 1
    /\ blocked_since' = clock + 1
    /\ UNCHANGED <<cfg, scan, window, annot, kicked_since_fetch, pc, exit_code, leases, sse_state,
                   stop_evt, sse_thread, polled, stops, started, deadline, to_stop,
                   fetch_failed, hist>>

\* The join returns and main leaves.  A daemon thread that is still running is
\* abandoned where it is when the process ends.
Join ==
    /\ pc \in {"join_return", "join_raise"}
    /\ JoinOver
    /\ pc' = IF pc = "join_return" THEN "exited" ELSE "crashed"
    /\ exit_code' = IF pc = "join_return" THEN 0 ELSE 1
    /\ sse_pc' = IF sse_pc = "done" THEN "done" ELSE "killed"
    /\ UNCHANGED <<cfg, scan, window, annot, waits, clock, leases, sse_state, stop_evt, sse_conn,
                   event_name, sse_wake, polled, stops, started, deadline, to_stop,
                   fetch_failed, hist>>

\* ------------------------------------------------------ the event listener
\* the listener renews the idle records itself
ListenerFrameMarksActive ==
    /\ idle_last_activity' = [k \in DOMAIN idle_last_activity |-> clock]
    /\ UNCHANGED <<cfg, scan, window, annot, waited, blocked_since, pc, exit_code, clock, first_seen,
                   renew_lease_last_seen, stop_evt, polled, stops, started, deadline,
                   to_stop, fetch_failed, hist>>

\* What the listener leaves alone in every step.
ListenerFrame ==
    UNCHANGED <<cfg, scan, window, annot, waited, blocked_since, pc, exit_code, clock, leases, stop_evt, polled, stops,
                started, deadline, to_stop, fetch_failed, hist>>

\* an error ends the thread
AfterErrorGivesUp == "done"

\* except ...: if not stop_evt.is_set(): print(...); time.sleep(1.0)
AfterError == IF stop_evt THEN "top" ELSE "backoff"

\* The values time.time() can have for the listener: main has been inside calls
\* that take time since blocked_since, and the listener's clock does not run
\* backwards, neither behind its latest stamp (line 146) nor behind the end of
\* its latest sleep.
ListenerTimes == Max(Max(blocked_since, sse_last_event_ts), sse_wake)..clock

\* An except clause is entered: with the stop flag unset, time.sleep(1.0) begins
\* and will return Backoff later.
Caught ==
    IF stop_evt THEN UNCHANGED sse_wake
    ELSE \E t \in ListenerTimes : sse_wake' = t + Backoff

\* while not stop_evt.is_set():   (the outer loop)
SseTop ==
    /\ sse_pc = "top"
    /\ sse_pc' = IF stop_evt THEN "done" ELSE "connecting"
    /\ UNCHANGED <<sse_conn, event_name, sse_wake, sse_state, kicked_since_fetch>>
    /\ ListenerFrame

\* The server answers the request for its event stream with a response.
StreamOpens(server) == server # Mute

\* urllib.request.urlopen(req, timeout=70) returns the response and event_name = "",
\* or it raises
SseConnect ==
    /\ sse_pc = "connecting"
    /\ \/ /\ StreamOpens(cfg.plex_url)
          /\ sse_pc' = "streaming"
          /\ sse_conn' = TRUE
          /\ UNCHANGED sse_wake
       \/ /\ sse_pc' = AfterError
          /\ Caught
          /\ UNCHANGED sse_conn
    /\ UNCHANGED <<event_name, sse_state, kicked_since_fetch>>
    /\ ListenerFrame

\* while not stop_evt.is_set():   (the inner loop; leaving it leaves the `with`)
SseLoop ==
    /\ sse_pc = "streaming"
    /\ IF stop_evt
       THEN /\ sse_pc' = "top"
            /\ sse_conn' = FALSE
            /\ event_name' = ""
       ELSE /\ sse_pc' = "reading"
            /\ UNCHANGED <<sse_conn, event_name>>
    /\ UNCHANGED <<sse_wake, sse_state, kicked_since_fetch>>
    /\ ListenerFrame

\* The values of event_name: the event types the stream names, and "" while no
\* `event:` line has been read since the latest blank line.
SseEventNames == {"", "ping", "activity", "playing", "timeline", "transcode"}

\* resp.readline() returns a line that is not blank: an `event:` line sets
\* event_name to what follows the colon, which may be nothing; any other line
\* (data:, id:, a comment) changes nothing.
SseLine ==
    /\ sse_pc = "reading"
    /\ \/ \E name \in SseEventNames : event_name' = name
       \/ UNCHANGED event_name
    /\ sse_pc' = "streaming"
    /\ UNCHANGED <<sse_conn, sse_wake, sse_state, kicked_since_fetch>>
    /\ ListenerFrame

\* the kick left out of the blank-line branch
KicksNever(name) == FALSE

\* if event_name and event_name != "ping": ... kick_evt.set()
Kicks(name) == name # "" /\ name # "ping"

\* every named event renews the timestamp
QualifiesAlways(name) == name # ""

\* if event_name in ("activity", "playing", "timeline"), inside the branch above
Qualifies(name) == Kicks(name) /\ name \in {"activity", "playing", "timeline"}

\* The values time.time() can return to the listener at line 146.
StampTimes == ListenerTimes

\* resp.readline() returns the blank line that ends an event (line 140).
SseBlank ==
    /\ sse_pc = "reading"
    /\ sse_pc' = "event_end"
    /\ UNCHANGED <<sse_conn, event_name, sse_wake, sse_state, kicked_since_fetch>>
    /\ ListenerFrame

\* The blank-line branch up to its first write of shared state: the timestamp of
\* an event that qualifies (line 146), with the kick still to come; the kick of
\* any other event that is named and no ping (line 147); nothing otherwise.
\* event_name = "" (line 148) closes the branch.
SseEvent ==
    /\ sse_pc = "event_end"
    /\ IF Qualifies(event_name)
       THEN /\ \E t \in StampTimes : sse_last_event_ts' = t
            /\ sse_pc' = "kicking"
            /\ UNCHANGED <<kick_evt, kicked_since_fetch, event_name>>
       ELSE /\ kick_evt' = (kick_evt \/ Kicks(event_name))
            /\ kicked_since_fetch' = (kicked_since_fetch \/ Kicks(event_name))
            /\ event_name' = ""
            /\ sse_pc' = "streaming"
            /\ UNCHANGED sse_last_event_ts
    /\ UNCHANGED <<sse_conn, sse_wake>>
    /\ ListenerFrame

\* kick_evt.set() after the timestamp was written (line 147), then event_name = ""
SseKick ==
    /\ sse_pc = "kicking"
    /\ kick_evt' = TRUE
    /\ kicked_since_fetch' = TRUE
    /\ event_name' = ""
    /\ sse_pc' = "streaming"
    /\ UNCHANGED <<sse_conn, sse_wake, sse_last_event_ts>>
    /\ ListenerFrame

\* resp.readline() returns b"" (the stream ended: break), or raises (the 70 s
\* timeout, a reset): either way the `with` closes the response.
SseReadEnds ==
    /\ sse_pc = "reading"
    /\ \E how \in {"eof", "raise"} :
        IF how = "eof"
        THEN sse_pc' = "top" /\ UNCHANGED sse_wake
        ELSE sse_pc' = AfterError /\ Caught
    /\ sse_conn' = FALSE
    /\ event_name' = ""
    /\ UNCHANGED <<sse_state, kicked_since_fetch>>
    /\ ListenerFrame

\* time.sleep(1.0) returns, Backoff after it began
SseBackoff ==
    /\ sse_pc = "backoff"
    /\ clock >= sse_wake
    /\ sse_pc' = "top"
    /\ UNCHANGED <<sse_conn, event_name, sse_wake, sse_state, kicked_since_fetch>>
    /\ ListenerFrame

Listener ==
    \/ SseTop
    \/ SseConnect
    \/ SseLoop
    \/ SseLine
    \/ SseBlank
    \/ SseEvent
    \/ SseKick
    \/ SseReadEnds
    \/ SseBackoff

\* ----------------------------------------------------------- one-shot mode
\* every row taken as ready
ReadyRowsAll(rs) == rs

\* if r.get("_idle_ready"): ready.append(r)
ReadyRows(rs) == SelectSeq(rs, GetIdleReady)

\* time.sleep(max(0.1, args.poll))
SleepTime == Max(SleepFloor, cfg.poll)

\* One pass of the idle wait loop: the GET of matches() takes its time, then
\* idle_annotate (one step: no other thread runs in one-shot mode) with its log
\* command, the WAIT lines, and the three ways out, the deadline test on a new
\* time.time() (line 406), and the sleep of line 409.
WaitIdle ==
    /\ pc = "wait_idle"
    /\ \/ FetchRaises("sessions")
       \/ \E p \in PollResults : \E raw \in {matches(p)} :
          \E now \in {clock + g : g \in GetTimes} :
            /\ listed' = p
            /\ annot_now' = now
            /\ \/ /\ LogsRaise(now)
                  /\ UNCHANGED rows
               \/ \E text \in LogInputs(raw) :
                  \E a \in {idle_annotate(raw, 1, Len(raw), now, text)} :
                  \E ready \in {ReadyRows(a.rows)} :
                  \E h \in LogTimes :
                    /\ idle_last_activity' = a.ila
                    /\ first_seen' = a.fs
                    /\ renew_lease_last_seen' = a.rls
                    /\ rows' = a.rows
                    /\ always_listed' = always_listed \cap RowKeys(raw)
                    /\ fetch_failed' = "none"
                    /\ IF ready # <<>>
                       THEN /\ to_stop' = ready
                            /\ pc' = "stop_once"
                            /\ clock' = now + h
                            /\ UNCHANGED exit_code
                       ELSE IF a.rows = <<>>
                       THEN /\ pc' = "exited"
                            /\ exit_code' = 0
                            /\ clock' = now + h
                            /\ UNCHANGED to_stop
                       ELSE IF now + h >= deadline
                       THEN /\ pc' = "exited"
                            /\ exit_code' = 2
                            /\ clock' = now + h
                            /\ UNCHANGED to_stop
                       ELSE /\ clock' = now + h + SleepTime
                            /\ UNCHANGED <<pc, exit_code, to_stop>>
                    /\ UNCHANGED <<cfg, scan, window, annot, waits, sse_state, stop_evt, sse_thread,
                                   kill_rows, stops, started, deadline, lost, reappeared_at>>

\* The STOP loop over to_stop, which takes its time, then the deadline of the
\* drain loop (line 420).
StopOnce ==
    /\ pc = "stop_once"
    /\ \E tids \in {DedupTids(to_stop, 1, <<>>)} :
       \E out \in [SeqSet(tids) -> Outcomes] :
       \E calls \in {StopCalls(tids, out, 1, <<>>)} :
       \E after \in {clock + t : t \in StopTimes(calls)} :
         /\ cycle_stops' = calls
         /\ stopped_before' = stopped_before \cup CallTids(cycle_stops)
         /\ clock' = after
         /\ IF Raised(calls)
            THEN /\ Uncaught("none")
                 /\ UNCHANGED deadline
            ELSE /\ pc' = "drain"
                 /\ deadline' = after + Second * Max(0, cfg.wait)
                 /\ UNCHANGED <<exit_code, fetch_failed, stop_evt, sse_thread>>
    /\ UNCHANGED <<cfg, scan, window, annot, waits, leases, sse_state, polled, cycle_dry, started, to_stop, hist>>

\* One pass of the drain loop (the test of line 421, the GET of matches(), which
\* takes its time, and the sleep), or the final matches() after the deadline.
Drain ==
    /\ pc = "drain"
    /\ \/ FetchRaises("sessions")
       \/ \E p \in PollResults : \E raw \in {matches(p)} : \E g \in GetTimes :
            /\ listed' = p
            /\ always_listed' = always_listed \cap RowKeys(raw)
            /\ fetch_failed' = "none"
            /\ IF clock < deadline
               THEN IF raw = <<>>
                    THEN /\ pc' = "exited"
                         /\ exit_code' = 0
                         /\ clock' = clock + g
                    ELSE /\ clock' = clock + g + SleepTime
                         /\ UNCHANGED <<pc, exit_code>>
               ELSE /\ pc' = "exited"
                    /\ exit_code' = 2
                    /\ clock' = clock + g
            /\ UNCHANGED <<cfg, scan, window, annot, waits, leases, sse_state, stop_evt, sse_thread, rows,
                           annot_now, kill_rows, stops, started, deadline, to_stop, lost,
                           reappeared_at>>

Next ==
    \/ Start
    \/ Seed
    \/ FirstPoll
    \/ WatchCycle
    \/ WatchResume
    \/ WatchClear
    \/ Tick
    \/ WatchWait
    \/ Finally
    \/ JoinTick
    \/ Join
    \/ Listener
    \/ WaitIdle
    \/ StopOnce
    \/ Drain

Spec == Init /\ [][Next]_vars

\* ------------------------------------------------------- checked fragments
\* Watch mode without the listener: every combination of the three thresholds,
\* on the default server and on the one behind the slow link.
WatchConfigs ==
    {c \in Configs : c.watch /\ ~c.sse /\ ~c.dry_run /\ c.pms_log_cmd
                     /\ c.watch_runtime = 0 /\ c.player_ip = "" /\ c.machine_id = ""
                     /\ c.plex_url \in {Home, Far} /\ c.poll = PollT}

InitWatch == Init /\ cfg \in WatchConfigs

NextWatch ==
    \/ Start
    \/ Seed
    \/ FirstPoll
    \/ WatchCycle
    \/ WatchClear
    \/ Tick
    \/ WatchWait

SpecWatch == InitWatch /\ [][NextWatch]_vars

\* Both modes without the listener: every threshold combination under --dry-run,
\* and real runs with the idle policy or the hard lease alone.
DryConfigs ==
    {c \in Configs : /\ c.pms_log_cmd
                     /\ c.watch_runtime = 0
                     /\ ~c.sse
                     /\ c.player_ip = "" /\ c.machine_id = "" /\ c.plex_url = Home
                     /\ c.poll = (IF c.watch THEN PollT ELSE PollL)
                     /\ ~c.dry_run =>
                            /\ c.renew_lease_seconds = 0
                            /\ (c.idle_seconds = 0) # (c.lease_seconds = 0)
                     /\ (~c.watch /\ ~c.dry_run) => c.idle_seconds > 0}

InitDry == Init /\ cfg \in DryConfigs

NextDry ==
    \/ NextWatch
    \/ WaitIdle
    \/ StopOnce
    \/ Drain

SpecDry == InitDry /\ [][NextDry]_vars

\* Watch mode with the listener thread and the idle policy, for the sessions of
\* one player address on a server with one client.
ListenConfigs ==
    {c \in Configs : /\ c.watch /\ c.sse /\ ~c.dry_run /\ c.pms_log_cmd
                     /\ c.player_ip = PlayerAddr /\ c.machine_id = "" /\ c.plex_url = Solo
                     /\ c.poll = PollT
                     /\ c.idle_seconds > 0
                     /\ c.renew_lease_seconds = 0
                     /\ c.lease_seconds = 0}

\* without a runtime limit
SseConfigs == {c \in ListenConfigs : c.watch_runtime = 0}

InitSse == Init /\ cfg \in SseConfigs

NextSse ==
    \/ NextWatch
    \/ WatchResume
    \/ Finally
    \/ JoinTick
    \/ Join
    \/ Listener

SpecSse == InitSse /\ [][NextSse]_vars

\* The runs of SseConfigs, and the same with a poll interval below the floor of
\* the wait.
PaceConfigs == SseConfigs \cup {[c EXCEPT !.poll = PollS] : c \in SseConfigs}

InitPace == Init /\ cfg \in PaceConfigs

SpecPace == InitPace /\ [][NextSse]_vars

\* With the steps that are sure to end: kick_evt.clear() returns, time passes
\* while main waits, and kick_evt.wait returns once the event is set or the
\* timeout has passed.  Nothing is assumed of the network: the listener may stay
\* in urlopen or in readline, and may fail there every time.
SpecPaceFair ==
    /\ SpecPace
    /\ WF_vars(WatchClear)
    /\ WF_vars(Tick)
    /\ WF_vars(WatchWait)

\* The listener in a watch run that ends at --watch-runtime.
RunConfigs == {c \in ListenConfigs : c.watch_runtime = RunT}

InitRun == Init /\ cfg \in RunConfigs

SpecRun == InitRun /\ [][NextSse]_vars

\* The runs of RunConfigs, and runs longer than the listener's sleep on the
\* server whose event stream refuses every connection.
RetryConfigs ==
    RunConfigs \cup {[c EXCEPT !.plex_url = Mute, !.poll = PollL, !.watch_runtime = RunL] :
                        c \in RunConfigs}

InitRetry == Init /\ cfg \in RetryConfigs

SpecRetry == InitRetry /\ [][NextSse]_vars

\* The same, with the steps that are sure to end: every external call of a cycle
\* returns or raises within its timeout, kick_evt.clear() returns, time passes
\* while main waits or joins, the waits return, the `finally` runs, the
\* listener's time.sleep(1.0) returns, and the test of its outer loop is made.
\* Nothing is assumed of the listener's urlopen and readline.
SpecRetryFair ==
    /\ SpecRetry
    /\ WF_vars(WatchCycle)
    /\ WF_vars(WatchResume)
    /\ WF_vars(WatchClear)
    /\ WF_vars(Tick)
    /\ WF_vars(WatchWait)
    /\ WF_vars(Finally)
    /\ WF_vars(JoinTick)
    /\ WF_vars(SseBackoff)
    /\ WF_vars(SseTop)

\* Startup with and without --pms-log-cmd, --watch, --sse, --idle-seconds and
\* --renew-lease-seconds, in real runs for the sessions of one player address;
\* the watch runs end at the runtime limit.
StartConfigs ==
    {c \in Configs : /\ ~c.dry_run
                     /\ c.player_ip = PlayerAddr /\ c.machine_id = "" /\ c.plex_url = Solo
                     /\ c.poll = (IF c.watch THEN PollT ELSE PollL)
                     /\ c.watch_runtime = (IF c.watch THEN RunT ELSE 0)
                     /\ c.lease_seconds = 0}

InitStart == Init /\ cfg \in StartConfigs

\* Both modes, with the listener.
NextStart ==
    \/ NextSse
    \/ WaitIdle
    \/ StopOnce
    \/ Drain

SpecStart == InitStart /\ [][NextStart]_vars

\* Watch mode, real and dry-run, on the server where two clients share a transcode
\* session and on the server with one client, under the idle policy with and
\* without the hard lease.
ShareConfigs ==
    {c \in Configs : /\ c.watch /\ ~c.sse /\ c.pms_log_cmd
                     /\ c.watch_runtime = 0
                     /\ c.player_ip = "" /\ c.machine_id = ""
                     /\ c.plex_url \in {Shared, Solo}
                     /\ c.poll = PollT
                     /\ c.idle_seconds > 0
                     /\ c.renew_lease_seconds = 0}

InitShare == Init /\ cfg \in ShareConfigs

SpecShare == InitShare /\ [][NextWatch]_vars

\* Watch mode without the listener on the server behind the slow link, under the
\* idle policy, with and without a runtime limit.
CeilConfigs ==
    {c \in Configs : /\ c.watch /\ ~c.sse /\ ~c.dry_run /\ c.pms_log_cmd
                     /\ c.player_ip = "" /\ c.machine_id = "" /\ c.plex_url = Far
                     /\ c.poll = PollT
                     /\ c.watch_runtime \in {0, RunC}
                     /\ c.idle_seconds > 0
                     /\ c.renew_lease_seconds = 0
                     /\ c.lease_seconds = 0}

InitCeil == Init /\ cfg \in CeilConfigs

SpecCeil == InitCeil /\ [][NextWatch]_vars

\* The same, with the steps of the loop that are sure to be taken: a cycle runs to
\* its end or to an exception (every external call has a timeout), time passes
\* while main waits, and kick_evt.clear() and kick_evt.wait(timeout=...) return.
SpecCeilFair ==
    /\ SpecCeil
    /\ WF_vars(WatchCycle)
    /\ WF_vars(WatchClear)
    /\ WF_vars(Tick)
    /\ WF_vars(WatchWait)

\* Watch mode with the listener on the server with two clients at two
\* addresses, under the idle policy and the renew lease, with and without the
\* hard lease, ended by the runtime limit.
GlobalConfigs ==
    {c \in Configs : /\ c.watch /\ c.sse /\ ~c.dry_run /\ c.pms_log_cmd
                     /\ c.player_ip = "" /\ c.machine_id = "" /\ c.plex_url = Pair
                     /\ c.poll = PollT
                     /\ c.idle_seconds > 0
                     /\ c.renew_lease_seconds > 0
                     /\ c.watch_runtime = RunT}

InitGlobal == Init /\ cfg \in GlobalConfigs

\* Two rows of one poll can both read the listener's timestamp here.
SpecGlobal == InitGlobal /\ [][NextSse]_vars

\* The watch runs of GlobalConfigs, with the listener and without it.
MergeConfigs == GlobalConfigs \cup {[c EXCEPT !.sse = FALSE] : c \in GlobalConfigs}

InitMerge == Init /\ cfg \in MergeConfigs

SpecMerge == InitMerge /\ [][NextSse]_vars

\* Real runs in both modes with --machine-id, --player-ip or both, on the server
\* with two clients at two addresses and on the one with two clients behind one
\* address; the idle policy in watch mode, with and without it in one-shot mode.
FilterConfigs ==
    {c \in Configs : /\ ~c.sse /\ ~c.dry_run /\ c.pms_log_cmd
                     /\ c.watch_runtime = 0
                     /\ c.machine_id # "" \/ c.player_ip # ""
                     /\ c.plex_url \in {Home, Shared}
                     /\ c.poll = (IF c.watch THEN PollT ELSE PollL)
                     /\ c.renew_lease_seconds = 0
                     /\ c.lease_seconds = 0
                     /\ c.watch => c.idle_seconds > 0}

InitFilter == Init /\ cfg \in FilterConfigs

SpecFilter == InitFilter /\ [][NextDry]_vars

\* One-shot real runs, with and without the idle policy, on the default server
\* and on the one behind the slow link; and, with --poll 0, where every sleep is
\* the floor of line 409, on the server with one client.
OnceConfigs ==
    {c \in Configs : /\ ~c.watch /\ ~c.sse /\ ~c.dry_run /\ c.pms_log_cmd
                     /\ c.watch_runtime = 0
                     /\ c.player_ip = "" /\ c.machine_id = ""
                     /\ c.plex_url \in {Home, Far, Solo}
                     /\ c.poll = (IF c.plex_url = Solo THEN PollS ELSE PollL)
                     /\ c.renew_lease_seconds = 0
                     /\ c.lease_seconds = 0}

InitOnce == Init /\ cfg \in OnceConfigs

NextOnce ==
    \/ Start
    \/ Seed
    \/ FirstPoll
    \/ WaitIdle
    \/ StopOnce
    \/ Drain

SpecOnce == InitOnce /\ [][NextOnce]_vars

\* The same, with every step of the three loops sure to be taken: each external
\* call returns or raises within its timeout, and time.sleep returns.
SpecOnceFair ==
    /\ SpecOnce
    /\ WF_vars(WaitIdle)
    /\ WF_vars(StopOnce)
    /\ WF_vars(Drain)

\* The log scanner on its own: row_activity_hit applied to one row and one text.
MaxLines == 2     \* longest log text, in lines

ScanRows ==
    {RawRow(k, t, a, PlayerMachine) :
        k \in {LiveKey("L1"), <<"livetv", "sessions", "dvr", "L2">>},
        t \in {"", "T1"}, a \in {"", PlayerAddr}}

ScanPaths ==
    {<<"livetv", "sessions", "L1", "index.m3u8">>,
     <<"livetv", "sessions", "L1">>,
     <<"livetv", "sessions", "L2", "">>,
     <<"video", ":", "transcode", "universal", "session", "T1", "base", "index.m3u8">>,
     <<"video", ":", "transcode", "universal", "session", "T1", "start.mpd">>,
     <<"video", ":", "transcode", "universal", "session", "T2", "0", "header">>,
     <<":", "timeline?state=playing">>,
     <<"video", ":", "transcode", "universal", "start.mpd">>,
     <<"video", ":", "transcode", "universal", "start.mpd?session=T1">>,
     <<"library", "sections">>,
     <<"">>,
     <<>>}

ScanLines == {Line(a, p) : a \in {NoAddr, PlayerAddr, OtherAddr}, p \in ScanPaths}

ScanTexts == UNION {[1..n -> ScanLines] : n \in 0..MaxLines}

InitScan ==
    /\ cfg \in {c \in WatchConfigs : c.idle_seconds > 0 /\ c.renew_lease_seconds = 0
                                     /\ c.lease_seconds = 0 /\ c.plex_url = Home}
    /\ pc = "scan"
    /\ Fresh
    /\ scan_row \in ScanRows
    /\ scan_text \in ScanTexts
    /\ scan_hit = None
    /\ NoWindow

\* hit = row_activity_hit(row, logs_text)
ScanLogs ==
    /\ pc = "scan"
    /\ scan_hit' = row_activity_hit(scan_row, scan_text)
    /\ pc' = "scanned"
    /\ UNCHANGED <<cfg, scan_row, scan_text, window, annot, waits, exit_code, clock, leases, sse_state, stop_evt,
                   sse_thread, polled, stops, started, deadline, to_stop, fetch_failed,
                   hist>>

NextScan == ScanLogs

SpecScan == InitScan /\ [][NextScan]_vars

\* The log fetch of idle_annotate on its own, for poll intervals counted in half
\* seconds and whole log lookbacks, under every combination of the thresholds.
MaxPollHalves == 4    \* longest --poll, in half seconds
MaxLookback == 3      \* largest --log-lookback

\* int(args.poll), for a poll interval given in half seconds
IntPoll(halves) == halves \div 2

\* max(args.log_lookback, int(args.poll) + 1): the since_seconds of the call
since_seconds(lookback, halves) == Max(lookback, IntPoll(halves) + 1)

\* cmd_template.format(since=max(1, int(since_seconds)))
SinceOf(seconds) == Max(1, seconds)

InitWindow ==
    /\ cfg \in {c \in WatchConfigs : c.plex_url = Home}
    /\ pc = "window"
    /\ Fresh
    /\ NoScan
    /\ win_poll \in 1..MaxPollHalves
    /\ win_lookback \in 0..MaxLookback
    /\ win_since = None

\* The first lines of idle_annotate: nothing is fetched without activity tracking;
\* with it, fetch_pms_logs runs the command for its window.
FetchWindow ==
    /\ pc = "window"
    /\ win_since' = IF track_activity
                    THEN SinceOf(since_seconds(win_lookback, win_poll))
                    ELSE None
    /\ pc' = "windowed"
    /\ UNCHANGED <<cfg, scan, win_poll, win_lookback, annot, waits, exit_code, clock, leases,
                   sse_state, stop_evt, sse_thread, polled, stops, started, deadline, to_stop,
                   fetch_failed, hist>>

NextWindow == FetchWindow

SpecWindow == InitWindow /\ [][NextWindow]_vars

\* ------------------------------------------------------------------ claims
\* A watch cycle has just run to its end: rows, kill_rows and the stop calls
\* are those of one and the same cycle.
AfterCycle == pc \in {"watch_clear", "watch_waiting"}

Queued(r) == r \in SeqSet(kill_rows)

\* C1: with --dry-run set, stop_transcode is never called, in watch mode and in
\* one-shot mode, whatever the thresholds, polls and log evidence.
C1_DryRunNeverStops ==
    cfg.dry_run => cycle_stops = <<>> /\ stopped_before = {}

\* a dry-run watch cycle found a ready session with a transcode id and only printed it
C1_Witness ==
    cfg.dry_run /\ cfg.watch /\ AfterCycle /\ cycle_dry # <<>> /\ kill_rows # <<>>

\* C2: in watch mode, once stop_transcode was called for a transcode id, no later
\* cycle of the run calls it for that id again.
C2_NoDuplicateStop ==
    cfg.watch => CallTids(cycle_stops) \cap stopped_before = {}

\* C3: in watch mode with --lease-seconds > 0, whatever the other two thresholds,
\* a session that every poll has listed is queued for termination in every cycle
\* that runs at least lease_seconds after the session was first listed.
C3_HardLeaseBackstop ==
    (AfterCycle /\ cfg.lease_seconds > 0) =>
        \A i \in 1..Len(rows) :
            (Key(rows[i]) \in always_listed /\ annot_now - started >= cfg.lease_seconds)
                => Queued(rows[i])

\* C4: in watch mode a session-list or log fetch that raises does not end the
\* reaper loop: the loop is still running afterwards and fetches again.
C4_FetchFailureRecoverable ==
    (cfg.watch /\ started # None /\ fetch_failed # "none") => InWatchLoop

\* C5: in watch mode a stop call that fails, by an HTTP error status or by a
\* transport failure, neither keeps the remaining queued ids of the cycle from
\* being stopped nor ends the loop.
C5_StopFailureIsolated ==
    (cfg.watch /\ ~cfg.dry_run /\ started # None /\ fetch_failed = "none") =>
        /\ SeqSet(DedupTids(kill_rows, 1, <<>>)) \subseteq CallTids(cycle_stops)
        /\ pc # "crashed"

\* How long the session of row r has been listed, at the least: the session_age
\* the cycle computed from its first_seen record; for a row the cycle left
\* without ages, the time since the watch loop started when every poll of the
\* run has listed its key.
SessionAge(r) ==
    IF r.annotated THEN r.session_age
    ELSE IF Key(r) \in always_listed THEN annot_now - started
    ELSE 0

\* the policy formula of the design for a row
PolicyReady(r) ==
    \/ cfg.idle_seconds > 0 /\ GetIdleAge(r) >= cfg.idle_seconds
    \/ cfg.renew_lease_seconds > 0 /\ GetRenewLeaseAge(r) >= cfg.renew_lease_seconds
    \/ cfg.lease_seconds > 0 /\ SessionAge(r) >= cfg.lease_seconds

\* C6: in every watch cycle a row is queued for termination exactly when
\* (idle > 0 and idle_age >= idle) or (renew > 0 and renew_lease_age >= renew) or
\* (lease > 0 and session_age >= lease): inclusive at the boundary, and a
\* threshold of 0 never makes its policy ready.
C6_DecisionIsPolicy ==
    AfterCycle => kill_rows = SelectSeq(rows, PolicyReady)

\* C7: in watch mode with a lease policy enabled (idle, renew or hard lease), at
\* the end of every cycle the keys with a lease record are exactly the keys of
\* the rows of that cycle's poll.
C7_RecordsMatchPoll ==
    (AfterCycle /\ (cfg.idle_seconds > 0 \/ cfg.renew_lease_seconds > 0
                    \/ cfg.lease_seconds > 0)) =>
        /\ DOMAIN first_seen = RowKeys(rows)
        /\ DOMAIN idle_last_activity = RowKeys(rows)
        /\ DOMAIN renew_lease_last_seen = RowKeys(rows)

\* C8: a tracked key that a watch-cycle poll did not list and a later poll lists
\* again gets a new record: in the cycle of its return all three timestamps are
\* that cycle's time, and from then on none is older than that.
C8_AgesRestart ==
    \A k \in DOMAIN reappeared_at :
        /\ k \in DOMAIN first_seen
        /\ k \in DOMAIN idle_last_activity
        /\ k \in DOMAIN renew_lease_last_seen
        /\ first_seen[k] = reappeared_at[k]
        /\ idle_last_activity[k] >= reappeared_at[k]
        /\ renew_lease_last_seen[k] >= reappeared_at[k]
        /\ annot_now = reappeared_at[k] =>
              /\ idle_last_activity[k] = annot_now
              /\ renew_lease_last_seen[k] = annot_now

\* a key tracked since the start went missing and is back, a cycle after its return
C8_Witness ==
    \E k \in DOMAIN reappeared_at :
        reappeared_at[k] > StartClock /\ annot_now > reappeared_at[k]

\* a step in which idle_annotate ran to its end with tracking on; annot_now' is
\* the `now` it annotated with
AnnotateStep ==
    /\ pc \in {"first_poll", "watch_loop", "watch_annotate", "wait_idle"}
    /\ pc' # "watch_annotate"
    /\ fetch_failed' = "none"
    /\ rows' # <<>> => rows'[1].annotated

\* some row of the new poll with key k saw activity
MarkedNow(k) == \E i \in 1..Len(rows') : Key(rows'[i]) = k /\ rows'[i].saw_activity

\* C9: marking a tracked key active at time now sets its idle_last_activity and
\* renew_lease_last_seen to now (both ages are 0 in that cycle), leaves its
\* first_seen alone, and changes no field of the record of any other key.
C9_MarkActiveFrame ==
    [][AnnotateStep =>
        \A k \in DOMAIN first_seen \cap RowKeys(rows') :
            /\ first_seen'[k] = first_seen[k]
            /\ MarkedNow(k) =>
                 /\ idle_last_activity'[k] = annot_now'
                 /\ renew_lease_last_seen'[k] = annot_now'
                 /\ \A i \in 1..Len(rows') :
                      (Key(rows'[i]) = k /\ rows'[i].saw_activity) =>
                          /\ rows'[i].idle_age = 0
                          /\ rows'[i].renew_lease_age = 0
                          /\ rows'[i].session_age = annot_now' - first_seen[k]
            /\ ~MarkedNow(k) =>
                 /\ idle_last_activity'[k] = idle_last_activity[k]
                 /\ renew_lease_last_seen'[k] = renew_lease_last_seen[k]]_vars

\* one key tracked from an earlier cycle was marked active while another key,
\* without evidence, kept its older timestamps
C9_Witness ==
    /\ AfterCycle
    /\ \E i, j \in 1..Len(rows) :
        /\ rows[i].annotated /\ rows[i].saw_activity
        /\ first_seen[Key(rows[i])] < annot_now
        /\ idle_last_activity[Key(rows[i])] = annot_now
        /\ rows[j].annotated /\ ~rows[j].saw_activity
        /\ idle_last_activity[Key(rows[j])] < annot_now

\* C10: for a key listed by two consecutive polls at times t1 < t2, with no
\* activity seen for it in the second, idle_age(t2) >= idle_age(t1) + (t2 - t1),
\* hence idle_age(t2) > idle_age(t1).
C10_IdleAgeGrows ==
    [][(AnnotateStep /\ annot_now < annot_now') =>
        \A k \in RowKeys(rows) \cap RowKeys(rows') \cap DOMAIN idle_last_activity :
            ~MarkedNow(k) =>
                \A i \in 1..Len(rows') :
                    Key(rows'[i]) = k =>
                        /\ rows'[i].idle_age >=
                               (annot_now - idle_last_activity[k]) + (annot_now' - annot_now)
                        /\ rows'[i].idle_age > annot_now - idle_last_activity[k]]_vars

\* a row without evidence whose idle age has grown over more than one cycle
C10_Witness ==
    /\ AfterCycle
    /\ \E i \in 1..Len(rows) :
        /\ rows[i].annotated /\ ~rows[i].saw_activity
        /\ rows[i].idle_age >= 2
        /\ first_seen[Key(rows[i])] < idle_last_activity[Key(rows[i])]

\* ------------------------------------------- what holds next to C3, C5, C7
\* C3 with activity tracking on (idle or renew-lease > 0): the hard lease queues
\* every session listed since the start once lease_seconds have passed.
C3_TrackedBackstop == track_activity => C3_HardLeaseBackstop

\* C5 for stop calls that return a status, success or not: every queued id is
\* stopped and the loop goes on.
C5_HttpStatusIsolated ==
    (\A i \in 1..Len(cycle_stops) : cycle_stops[i].outcome # "raise")
        => C5_StopFailureIsolated

\* C7 with activity tracking on: the recorded keys are the polled keys.
C7_TrackedRecordsMatchPoll == track_activity => C7_RecordsMatchPoll

\* ---------------------------------------------------------------- C11
\* The path of a line names the session of row r: it holds the live-TV path
\* fragment of r, or the transcode-session path of its non-empty transcode id.
NamesSession(r, path) ==
    \/ Contains(path, <<"livetv", "sessions", live_uuid(r)>>)
    \/ r.transcode_id # "" /\ Contains(path, <<"transcode", "universal", "session",
                                               r.transcode_id>>)

\* a generic heartbeat endpoint: a timeline ping or a segment-manifest fetch
Heartbeat(path) == IsTimeline(path) \/ IsStartMpd(path)

Evidence(r, line) ==
    /\ ReqMatch(line)
    /\ \/ NamesSession(r, line.path)
       \/ r.player_addr # "" /\ line.addr = r.player_addr /\ Heartbeat(line.path)

\* C11: the scanner returns true exactly when some well-formed request line names
\* the session (live-TV fragment, or transcode path of a non-empty id) or is a
\* heartbeat request from the session's non-empty player address; a text whose
\* well-formed lines are all heartbeats from other addresses that name no session
\* gives false; and dropping the lines that do not parse never changes the result.
C11_LogScannerResult ==
    pc = "scanned" =>
        /\ scan_hit <=> \E i \in 1..Len(scan_text) : Evidence(scan_row, scan_text[i])
        /\ (\A i \in 1..Len(scan_text) :
               ReqMatch(scan_text[i]) =>
                   /\ Heartbeat(scan_text[i].path)
                   /\ ~NamesSession(scan_row, scan_text[i].path)
                   /\ scan_text[i].addr # scan_row.player_addr)
           => ~scan_hit
        /\ scan_hit = row_activity_hit(scan_row, SelectSeq(scan_text, ReqMatch))

\* A timeline ping from another address, then a line without an address prefix
\* that names the session: the scanner has said no.
C11_Witness ==
    /\ pc = "scanned"
    /\ scan_row.player_addr = PlayerAddr
    /\ Len(scan_text) = 2
    /\ scan_text[1] = Line(OtherAddr, <<":", "timeline?state=playing">>)
    /\ scan_text[2] = Line(NoAddr, <<"livetv", "sessions", live_uuid(scan_row), "index.m3u8">>)
    /\ scan_hit = FALSE

\* ---------------------------------------------------------------- C12, C13
\* The listener thread takes a step: its position changes, and not because the
\* thread is started or the process ends under it.
ListenerMoves == sse_running /\ sse_pc' # sse_pc /\ sse_pc' # "killed"

\* The listener handles the blank line that ends the event named event_name (a
\* blank line read while event_name is "" ends an event without a type line).
EventHandled == sse_pc = "event_end" /\ ListenerMoves

PlayerFacing == {"activity", "playing", "timeline"}

\* C12: while the event the listener is at has a type that is not activity,
\* playing or timeline (a transcode event, a ping, an event without a type
\* line), no step changes the last-qualifying-event timestamp: it has the same
\* value after the event as before it.
C12_NonQualifyingKeepsTimestamp ==
    /\ [][event_name \notin PlayerFacing => sse_last_event_ts' = sse_last_event_ts]_vars
    /\ [][(EventHandled /\ event_name \notin PlayerFacing)
             => (sse_pc' = "streaming" /\ event_name' = "")]_vars

\* A transcode event has been finished: the wake-up is raised and the timestamp
\* still has its initial value.
C12_Witness ==
    /\ sse_pc = "streaming"
    /\ event_name = ""
    /\ kick_evt
    /\ sse_last_event_ts = 0

\* C13 as stated: every event of a type other than ping sets the timestamp to now
\* (a time the listener can read while main is where it is), with the wake-up to
\* follow; a ping does neither.
C13_TimestampWithEveryWakeup ==
    [][(EventHandled /\ event_name # "")
          => IF event_name # "ping"
             THEN sse_last_event_ts' \in StampTimes /\ sse_pc' = "kicking"
             ELSE UNCHANGED <<sse_last_event_ts, kick_evt>>]_vars

\* C13, amended: an event raises the wake-up exactly when it has a type other
\* than ping, and sets the timestamp to now exactly when its type is activity,
\* playing or timeline.  The timestamp is written first and the wake-up is the
\* listener's next step, whatever main does in between; so every event that
\* updates the timestamp also raises the wake-up, an event of another type (a
\* transcode event) raises the wake-up alone, and a ping or an event without a
\* type does neither.
C13_WakeupWithEveryTimestamp ==
    /\ [][EventHandled
             => IF event_name \in PlayerFacing
                THEN /\ sse_last_event_ts' \in StampTimes
                     /\ sse_pc' = "kicking"
                     /\ kick_evt' = kick_evt
                ELSE /\ sse_last_event_ts' = sse_last_event_ts
                     /\ sse_pc' = "streaming"
                     /\ kick_evt' = (kick_evt \/ event_name \notin {"", "ping"})]_vars
    /\ [][(sse_pc = "kicking" /\ ListenerMoves)
             => (kick_evt' /\ sse_pc' = "streaming"
                 /\ sse_last_event_ts' = sse_last_event_ts)]_vars
    /\ [][sse_last_event_ts' # sse_last_event_ts => (EventHandled /\ sse_pc' = "kicking")]_vars
    /\ [][(kick_evt' /\ ~kick_evt)
             => (ListenerMoves /\ sse_pc \in {"event_end", "kicking"}
                 /\ event_name \notin {"", "ping"})]_vars

\* A player-facing event has had its timestamp written and main has read it for
\* a row, which the logs did not name, and finished the cycle, all before the
\* wake-up of that event.
C13_Witness ==
    /\ sse_pc = "kicking"
    /\ ~kick_evt
    /\ ~kicked_since_fetch
    /\ AfterCycle
    /\ sse_last_event_ts = annot_now
    /\ \E i \in 1..Len(rows) : rows[i].saw_activity /\ ~rows[i].log_hit

\* ---------------------------------------------------------------- C14
\* the wait between two cycles ends and the next cycle begins
WaitReturns == pc = "watch_waiting" /\ pc' = "watch_loop"

\* C14 as stated: the wait between two cycles takes the poll interval at most.
C14_WaitWithinPoll ==
    [][WaitReturns => waited' <= cfg.poll]_vars

\* C14, amended: in watch mode without a runtime limit, once a cycle has run to
\* its end the next cycle starts, whatever the listener does; the wait in
\* between takes max(0.2 s, poll interval) at most, and less than that only when
\* the wake-up is raised; nothing but the next cycle follows the wait.
C14_PollingAuthoritative ==
    /\ (AfterCycle /\ cfg.watch_runtime = 0) ~> (pc = "watch_loop")
    /\ [][(pc = "watch_waiting" /\ pc' # pc)
             => /\ pc' = "watch_loop"
                /\ waited' <= (IF cfg.poll > WaitFloor THEN cfg.poll ELSE WaitFloor)
                /\ waited' < (IF cfg.poll > WaitFloor THEN cfg.poll ELSE WaitFloor)
                       => kick_evt]_vars
    /\ [][(pc = "watch_waiting" /\ clock' # clock)
             => (clock' = clock + 1 /\ waited' = waited + 1 /\ ~kick_evt)]_vars

\* A second cycle is about to start after a wait of 0.2 s, longer than the poll
\* interval, while the listener has never got a connection and sits in its
\* backoff.
C14_Witness ==
    /\ pc = "watch_loop"
    /\ waited = WaitFloor
    /\ waited > cfg.poll
    /\ sse_pc = "backoff"
    /\ ~kick_evt
    /\ sse_last_event_ts = 0

\* ---------------------------------------------------------------- C15
\* C15: a wake-up raised at any moment since the latest cycle began, the time
\* between its session fetch and its wait included, makes the next wait return
\* at once: with such a wake-up raised, no time passes in the wait any more.
C15_NoWakeupLost ==
    [][(pc = "watch_waiting" /\ kicked_since_fetch) => clock' = clock]_vars

\* ---------------------------------------------------------------- C16
\* The listener thread has ended: it returned, or the process ended under it.
ListenerOver == sse_pc \in {"done", "killed"}

\* C16: the listener ends only once the stop flag is set.  While it is unset, a
\* failed connect and a failed or ended read lead to the backoff or straight to
\* the top of the loop, the backoff leads to the top, and the top leads to a new
\* connection attempt; no step of the listener moves the main thread or ends the
\* process.
C16_ListenerStopsOnlyWhenCancelled ==
    /\ [](ListenerOver => stop_evt)
    /\ [][ListenerMoves =>
             /\ pc' = pc
             /\ exit_code' = exit_code
             /\ ~stop_evt =>
                   /\ sse_pc' # "done"
                   /\ sse_pc = "connecting" => sse_pc' \in {"streaming", "backoff"}
                   /\ sse_pc = "reading" =>
                          sse_pc' \in {"streaming", "event_end", "backoff", "top"}
                   /\ sse_pc = "backoff" => sse_pc' = "top"
                   /\ sse_pc = "top" => sse_pc' = "connecting"]_vars
    /\ (sse_pc \in {"backoff", "top"}) ~> (sse_pc = "connecting" \/ stop_evt)

\* A connection attempt failed, the listener slept its second, and it is
\* connecting again while the stop flag is unset and the watch loop goes on.
C16_Witness ==
    /\ sse_pc = "connecting"
    /\ ~sse_conn
    /\ sse_wake > 0
    /\ clock >= sse_wake
    /\ ~stop_evt
    /\ InWatchLoop

\* ---------------------------------------------------------------- C17
\* C17: whenever the listener task has ended, its connection is closed; here for
\* the runs that end by `return 0` at the runtime limit.
C17_ConnectionReleased == (ListenerOver /\ pc = "exited") => ~sse_conn

\* ---------------------------------------------------------------- C18
\* a step of the main thread
ReaperStep == pc' # pc

\* a step of the main thread, or time passing while it waits: its position, the
\* row idle_annotate is at, or the clock changes
MainMoves == pc' # pc \/ annot_i' # annot_i \/ clock' # clock

\* C18: the two threads take their steps one at a time.  A step of the listener
\* changes none of the three lease maps, nor anything else main keeps, the stop
\* flag included; a step of main never writes the last-qualifying-event
\* timestamp nor the listener's own connection and event_name.  What one thread
\* writes and the other reads is the timestamp (written by the listener), the
\* wake-up event (set by the listener, cleared by main in front of its wait) and
\* the stop flag (set by main).
C18_SingleWriter ==
    [][/\ ~(ListenerMoves /\ MainMoves)
       /\ ListenerMoves =>
            UNCHANGED <<idle_last_activity, first_seen, renew_lease_last_seen, rows,
                        annot_rows, annot_now, kill_rows, cycle_stops, cycle_dry,
                        stopped_before, cfg, started, deadline, to_stop, stop_evt>>
       /\ MainMoves => UNCHANGED <<sse_last_event_ts, sse_conn, event_name, sse_wake>>
       /\ leases' # leases => (MainMoves /\ pc \in {"seed", "first_poll", "watch_loop",
                                                   "watch_annotate"})
       /\ sse_last_event_ts' # sse_last_event_ts => ListenerMoves
       /\ stop_evt' # stop_evt => (MainMoves /\ stop_evt')
       /\ kick_evt' # kick_evt =>
              IF kick_evt' THEN ListenerMoves ELSE (MainMoves /\ pc = "watch_clear")]_vars

\* Main stands in front of a read of the timestamp, with a lease record in its
\* maps that is older than the timestamp the listener has just written, and the
\* listener has its wake-up still to raise.
C18_Witness ==
    /\ pc = "watch_annotate"
    /\ sse_pc = "kicking"
    /\ \E k \in DOMAIN idle_last_activity :
           /\ idle_last_activity[k] < sse_last_event_ts
           /\ renew_lease_last_seen[k] < sse_last_event_ts
    /\ sse_last_event_ts = clock

\* ---------------------------------------------------------------- C19
\* the freshness window of the listener's timestamp: max(2 x poll, 3 s)
SseWindow == Max(2 * cfg.poll, SseWindowFloor)

\* the rows a step of idle_annotate has worked on: annot_rows while it is stopped
\* between two rows, the rows of the poll once it has returned
Annotating == IF pc' = "watch_annotate" THEN annot_rows' ELSE rows'

\* the first and the last row annotated in the step
SegmentFirst == IF pc = "watch_annotate" THEN annot_i ELSE 1
SegmentLast == IF pc' = "watch_annotate" THEN annot_i' - 1 ELSE Len(rows')

\* a step of main inside idle_annotate that no exception of a fetch ended
AnnotatesRows ==
    /\ pc \in {"first_poll", "watch_loop", "watch_annotate"}
    /\ MainMoves
    /\ fetch_failed' = "none"

InvalidConfig ==
    \/ (cfg.idle_seconds > 0 \/ cfg.renew_lease_seconds > 0) /\ ~cfg.pms_log_cmd
    \/ cfg.sse /\ ~cfg.watch

\* no session list or log was fetched, no listener started, no stop call made
NothingDone ==
    /\ idle_last_activity = EmptyDict /\ first_seen = EmptyDict
    /\ renew_lease_last_seen = EmptyDict
    /\ rows = <<>> /\ always_listed = {} /\ fetch_failed = "none"
    /\ sse_pc = "off" /\ ~sse_conn /\ ~stop_evt /\ ~kick_evt /\ sse_last_event_ts = 0
    /\ cycle_stops = <<>> /\ cycle_dry = <<>> /\ stopped_before = {}
    /\ clock = StartClock

\* C20: with an invalid command line the first step of the program is the usage
\* error (exit status 2), nothing has been done by then, and no step follows it;
\* with a valid one the usage error never occurs.
C20_ConfigFailureFatal ==
    /\ [](InvalidConfig => pc \in {"start", "usage_error"} /\ NothingDone)
    /\ [](~InvalidConfig => pc # "usage_error")
    /\ [][(pc = "start" /\ InvalidConfig) => (pc' = "usage_error" /\ exit_code' = 2)]_vars
    /\ [][pc # "usage_error"]_vars

\* --renew-lease-seconds alone, without --pms-log-cmd, has ended in the usage
\* error.
C20_Witness ==
    /\ pc = "usage_error"
    /\ exit_code = 2
    /\ cfg.renew_lease_seconds > 0
    /\ cfg.idle_seconds = 0
    /\ ~cfg.pms_log_cmd
    /\ cfg.watch

\* ---------------------------------------------------------------- C21
\* The ids a cycle issued a stop for: the WATCH_STOP_DRY lines under --dry-run,
\* the stop_transcode calls otherwise.
IssuedTids == IF cfg.dry_run THEN cycle_dry ELSE [i \in 1..Len(cycle_stops) |-> cycle_stops[i].tid]

\* C21: the stops one watch cycle issues, real or simulated, name no transcode id
\* twice, even when several queued rows carry the same id; every id named is the
\* non-empty id of a queued row, so a queued row without an id causes no stop.
C21_OneStopPerId ==
    /\ \A i, j \in 1..Len(IssuedTids) : IssuedTids[i] = IssuedTids[j] => i = j
    /\ \A i \in 1..Len(IssuedTids) :
          /\ IssuedTids[i] # ""
          /\ \E k \in 1..Len(kill_rows) : kill_rows[k].transcode_id = IssuedTids[i]
    /\ (\A k \in 1..Len(kill_rows) : kill_rows[k].transcode_id = "") => IssuedTids = <<>>

\* Two queued rows of different live sessions carry one transcode id, and the
\* cycle made a single stop call.
C21_Witness ==
    /\ AfterCycle
    /\ ~cfg.dry_run
    /\ Len(kill_rows) = 2
    /\ kill_rows[1].transcode_id = kill_rows[2].transcode_id
    /\ kill_rows[1].live_key # kill_rows[2].live_key
    /\ Len(cycle_stops) = 1

\* ---------------------------------------------------------------- C22
\* A listener step that loses the connection: urlopen failed, or the read loop
\* was left on an error, a timeout or the end of the stream.
ConnectionDropped ==
    \/ sse_pc = "connecting" /\ sse_pc' \in {"top", "backoff", "done"}
    \/ sse_pc = "reading" /\ sse_pc' \in {"top", "backoff", "done"}

\* C22: while the stop flag is unset, every connection drop (a failed connect, an
\* error or timeout while streaming, the end of the stream) takes the listener to
\* the 1-second backoff, which is the only way from a drop to the next connection
\* attempt.  (From the top of the loop the next step of the listener is the new
\* attempt, so a drop that leads straight to the top is a reconnect without
\* backoff.)
C22_ReconnectsBackedOff ==
    [][(ConnectionDropped /\ ~stop_evt) => sse_pc' = "backoff"]_vars

\* ---------------------------------------------------------------- C23
\* the row of live session live in the row list rs, when it has one
HasLive(rs, live) == \E i \in 1..Len(rs) : rs[i].live_key = live

RowOf(rs, live) == rs[CHOOSE i \in 1..Len(rs) : rs[i].live_key = live]

\* C23: a live session listed by two consecutive polls is tracked under one lease
\* record: the first_seen its record has after the second poll is the one it had
\* after the first, and its session_age has not gone down, whether or not either
\* poll reported a transcode id for it.
C23_SessionKeyStable ==
    [][(AnnotateStep /\ ReaperStep /\ pc = "watch_loop") =>
          \A i \in 1..Len(rows') :
              (rows'[i].annotated /\ HasLive(rows, rows'[i].live_key)
                                  /\ RowOf(rows, rows'[i].live_key).annotated) =>
                  /\ Key(RowOf(rows, rows'[i].live_key)) \in DOMAIN first_seen
                  /\ first_seen'[Key(rows'[i])] =
                         first_seen[Key(RowOf(rows, rows'[i].live_key))]
                  /\ rows'[i].session_age >=
                         RowOf(rows, rows'[i].live_key).session_age]_vars

\* ---------------------------------------------------------------- C24
\* C24: whenever a lease policy is enabled (idle, renew-lease or hard lease) the
\* cycle fetches log evidence, and the window it asks for is at least
\* max(log_lookback, poll + 1) seconds; compared in half seconds, so that poll
\* intervals such as 1.5 s are covered.
C24_LogWindowCoversPoll ==
    (pc = "windowed" /\ (cfg.idle_seconds > 0 \/ cfg.renew_lease_seconds > 0
                         \/ cfg.lease_seconds > 0)) =>
        /\ win_since # None
        /\ 2 * win_since >= Max(2 * win_lookback, win_poll + 2)

\* ---------------------------------------------------------------- C25
\* a pass of the watch loop that began at or after the runtime limit comes to its
\* end: in a run without the listener the pass is one step, and the clock before
\* it is the `now` of line 309
PastCeiling == cfg.watch_runtime > 0 /\ clock - started >= cfg.watch_runtime

CycleEnds == pc = "watch_loop" /\ pc' # pc /\ fetch_failed' = "none"

\* the latest cycle was carried out in full: its rows were evaluated and every
\* queued id was stopped
CycleCarriedOut ==
    /\ kill_rows = KillRows(rows)
    /\ CallTids(cycle_stops) = SeqSet(DedupTids(kill_rows, 1, <<>>))
    /\ ~Raised(cycle_stops)

\* C25: with --watch-runtime R > 0 the watch loop ends, with exit status 0 unless
\* an external call raised; it ends in the first cycle that began R or more after the loop started,
\* after that cycle's evaluation and stop calls, so never before one full cycle;
\* with R = 0 it never returns.
C25_RuntimeCeiling ==
    /\ (pc = "watch_loop" /\ cfg.watch_runtime > 0) ~> (pc \in {"exited", "crashed"})
    /\ [][pc' = "exited" =>
            /\ CycleEnds /\ PastCeiling
            /\ exit_code' = 0
            /\ annot_now' >= clock
            /\ CycleCarriedOut']_vars
    /\ [][(CycleEnds /\ PastCeiling) => pc' \in {"exited", "crashed"}]_vars
    /\ [](cfg.watch_runtime = 0 => pc # "exited")

\* The loop has returned 0 from a cycle that began past the limit, not the first
\* one, and stopped a session in it.
C25_Witness ==
    /\ pc = "exited"
    /\ exit_code = 0
    /\ annot_now - started > cfg.watch_runtime
    /\ cycle_stops # <<>>
    /\ waited = WaitTimeout

\* ---------------------------------------------------------------- C26
\* The readiness fields of the WATCH line of row r (lines 324-331): idle_ready is
\* r.get('_idle_ready'); renew_lease_ready and lease_ready are the locals of the
\* report loop.
WatchLine(r) ==
    [idle_ready |-> GetIdleReady(r),
     renew_lease_ready |-> renew_lease_ready(r),
     lease_ready |-> lease_ready(r)]

\* C26: in every watch cycle and for every row, the three readiness values of the
\* row's WATCH line are the booleans the termination decision of the cycle uses,
\* and a policy whose threshold is 0 is never reported ready.
C26_ReportedIsDecided ==
    AfterCycle =>
        \A i \in 1..Len(rows) :
            /\ WatchLine(rows[i]).idle_ready = idle_ready(rows[i])
            /\ WatchLine(rows[i]).renew_lease_ready = renew_lease_ready(rows[i])
            /\ WatchLine(rows[i]).lease_ready = lease_ready(rows[i])
            /\ cfg.idle_seconds = 0 => ~WatchLine(rows[i]).idle_ready
            /\ cfg.renew_lease_seconds = 0 => ~WatchLine(rows[i]).renew_lease_ready
            /\ cfg.lease_seconds = 0 => ~WatchLine(rows[i]).lease_ready

\* ---------------------------------------------------------------- C27
\* row r is not queued on idle or renew-lease grounds: neither policy is ready
\* for it, and if it is among the queued rows kill, its hard lease is ready
ProtectedRow(r, kill) ==
    /\ ~idle_ready(r)
    /\ ~renew_lease_ready(r)
    /\ r \in SeqSet(kill) => lease_ready(r)

\* a watch cycle has evaluated its rows: it is over, or on its way out of the loop
CycleEvaluated == AfterCycle \/ pc \in {"finally_return", "finally_raise"}

\* C27 as stated: SSE evidence counts for every polled session at once; a cycle
\* that took the listener's timestamp as evidence for one row, which the logs
\* did not name, did so for every row of the poll.
C27_EvidenceForAllAtOnce ==
    (CycleEvaluated /\ fetch_failed = "none") =>
        ((\E i \in 1..Len(rows) : rows[i].saw_activity /\ ~rows[i].log_hit)
            => \A j \in 1..Len(rows) : rows[j].annotated => rows[j].saw_activity)

\* C27, amended: in every watch cycle a row with saw_activity is not queued on
\* idle or renew-lease grounds, only the hard lease can queue it; and when SSE
\* mode is on and the last qualifying event is inside the freshness window when
\* the cycle reads the timestamp for a row, that row and every row after it have
\* saw_activity, the rows of other clients without any log evidence included.
\* The rows before it keep what was read for them: an event that arrives while
\* idle_annotate is between two rows protects the later rows only.
C27_ActivityProtects ==
    [][(pc \in {"watch_loop", "watch_annotate"} /\ MainMoves /\ fetch_failed' = "none") =>
          /\ (cfg.sse /\ annot_now' - sse_last_event_ts <= SseWindow) =>
                 \A i \in SegmentFirst..SegmentLast : Annotating[i].saw_activity
          /\ \A i \in 1..SegmentLast : \A j \in i..SegmentLast :
                 (Annotating[i].saw_activity /\ ~Annotating[i].log_hit)
                     => Annotating[j].saw_activity
          /\ pc' # "watch_annotate" =>
                 \A i \in 1..Len(rows') :
                     rows'[i].saw_activity => ProtectedRow(rows'[i], kill_rows')]_vars

\* Two clients at two addresses, tracked for as long as the idle threshold and
\* never seen in the logs in this cycle, and an event older than the poll but
\* inside the window: both rows have saw_activity and nothing is queued.
C27_Witness ==
    /\ pc \in {"watch_clear", "finally_return"}
    /\ cfg.lease_seconds = 0
    /\ Len(rows) = 2
    /\ rows[1].player_addr # rows[2].player_addr
    /\ \A i \in 1..2 :
          /\ rows[i].saw_activity /\ ~rows[i].log_hit
          /\ rows[i].session_age >= cfg.idle_seconds
    /\ sse_last_event_ts < annot_now
    /\ sse_last_event_ts > 0
    /\ kill_rows = <<>>

\* ---------------------------------------------------------------- C28
\* C28: in every state the three lease maps have the same keys, and for every
\* key idle_last_activity and renew_lease_last_seen hold the same time, which is
\* not before first_seen; so in every annotated row idle_age = renew_lease_age
\* and session_age >= idle_age.
C28_LeasesInStep ==
    /\ DOMAIN idle_last_activity = DOMAIN first_seen
    /\ DOMAIN renew_lease_last_seen = DOMAIN first_seen
    /\ \A k \in DOMAIN first_seen :
          /\ idle_last_activity[k] = renew_lease_last_seen[k]
          /\ first_seen[k] <= idle_last_activity[k]
    /\ \A i \in 1..Len(rows) :
          rows[i].annotated =>
              /\ rows[i].idle_age = rows[i].renew_lease_age
              /\ rows[i].session_age >= rows[i].idle_age

\* A key first seen in an earlier poll was marked active after that and has gone
\* without evidence since: its three ages are 0 < idle_age = renew_lease_age <
\* session_age.
C28_Witness ==
    \E i \in 1..Len(rows) :
        /\ rows[i].annotated
        /\ Key(rows[i]) \in DOMAIN first_seen
        /\ first_seen[Key(rows[i])] < idle_last_activity[Key(rows[i])]
        /\ rows[i].idle_age > 0
        /\ rows[i].renew_lease_age = rows[i].idle_age
        /\ rows[i].session_age > rows[i].idle_age

\* ---------------------------------------------------------------- C29
FilterOn == cfg.machine_id # "" \/ cfg.player_ip # ""

\* row r has the machine id and the player address of every filter given
PassesFilters(r) ==
    /\ cfg.machine_id # "" => r.machine_id = cfg.machine_id
    /\ cfg.player_ip # "" => r.player_addr = cfg.player_ip

\* the rows of the session list ls that pass the filters
Passing(ls) == {ls[i] : i \in {j \in 1..Len(ls) : PassesFilters(ls[j])}}

\* C29: with a machine-id or player-address filter given, every row the program
\* works on (annotated, queued, or to be stopped) passes every filter; every stop
\* call of a watch cycle or of the one-shot stop loop is for the transcode id of
\* a row of the latest session list that passes them; and a lease record is only
\* ever created under the key of such a row.
C29_FiltersBoundStops ==
    /\ [](FilterOn =>
            \A r \in SeqSet(rows) \cup SeqSet(kill_rows) \cup SeqSet(to_stop) :
                PassesFilters(r))
    /\ [][(FilterOn /\ ReaperStep) =>
             /\ (pc \in {"watch_loop", "stop_once"} /\ fetch_failed' = "none") =>
                   CallTids(cycle_stops') \subseteq
                       {r.transcode_id : r \in Passing(listed')} \ {""}
             /\ (DOMAIN first_seen' \ DOMAIN first_seen) \cup
                (DOMAIN idle_last_activity' \ DOMAIN idle_last_activity) \cup
                (DOMAIN renew_lease_last_seen' \ DOMAIN renew_lease_last_seen)
                   \subseteq {Key(r) : r \in Passing(listed')}]_vars

\* The latest session list holds a session that passes the filters and one that
\* fails one: the first was stopped, the second has neither a stop call nor a
\* lease record.
C29_Witness ==
    /\ FilterOn
    /\ pc = "watch_clear"
    /\ cycle_stops # <<>>
    /\ \E r \in SeqSet(listed) :
          /\ ~PassesFilters(r)
          /\ r.transcode_id \notin CallTids(cycle_stops)
          /\ Key(r) \notin DOMAIN first_seen
    /\ \E r \in SeqSet(listed) :
          /\ PassesFilters(r)
          /\ r.transcode_id \in CallTids(cycle_stops)

\* ---------------------------------------------------------------- C30
Terminated == pc \in {"exited", "crashed"}

\* the longest time one GET of the run's server takes
SlowestGet == IF cfg.plex_url = Far THEN MaxCall ELSE 0

\* the transcode ids of the rows of the latest annotated poll that are idle_ready
ReadyTids == {rows[i].transcode_id : i \in {j \in 1..Len(rows) : GetIdleReady(rows[j])}}

\* C30 as stated, for the time of the end: a one-shot run is over by the deadline
\* of the loop it ends in, the external calls of its last pass (a GET, the log
\* command and a stop call at most) allowed for.
C30_EndsByDeadline ==
    (Terminated /\ deadline # None) => clock <= deadline + 3 * SlowestGet

\* C30, amended: a one-shot run without --dry-run ends: from the idle wait loop,
\* the stop loop and the drain loop the program terminates.  The deadline of a
\* loop is tested once per pass, in front of its sleep, so the run can outlast
\* it: every pass of the wait loop begins less than one sleep of
\* max(0.1 s, poll) after the deadline, every pass of the drain loop less than
\* one sleep and one GET after it, and the run ends within the calls of that
\* pass.  With --idle-seconds > 0 stop is called only for rows that were
\* idle_ready in the latest poll of the wait loop; when the deadline has passed
\* with rows listed and none ready the program exits with status 2 and no stop
\* call.  Status 0 comes only from a poll without matching rows, and a drain
\* poll at or after the deadline gives status 2.
C30_OneShotOutcome ==
    /\ (pc \in {"wait_idle", "stop_once", "drain"}) ~> Terminated
    /\ [](pc = "wait_idle" => clock < deadline + SleepTime)
    /\ [](pc = "drain" => clock < deadline + SleepTime + SlowestGet)
    /\ []((Terminated /\ deadline # None)
             => clock < deadline + SleepTime + 3 * SlowestGet)
    /\ [](cfg.idle_seconds > 0 => CallTids(cycle_stops) \subseteq ReadyTids)
    /\ [][(pc = "wait_idle" /\ ReaperStep /\ fetch_failed' = "none" /\ rows' # <<>>
             /\ ReadyRows(rows') = <<>>)
            => /\ clock' >= deadline
               /\ pc' = "exited" /\ exit_code' = 2
               /\ cycle_stops' = <<>>]_vars
    /\ [][(~Terminated /\ pc' = "exited")
            => /\ exit_code' \in {0, 2}
               /\ exit_code' = 0 => matches(listed') = <<>>
               /\ (pc = "drain" /\ matches(listed') # <<>>) =>
                      (exit_code' = 2 /\ clock >= deadline)]_vars

\* The idle wait found a session ready and it was stopped; the drain loop slept
\* past its deadline, and the poll after it still listed a session: status 2,
\* later than the deadline by more than the calls of the last pass.
C30_Witness ==
    /\ pc = "exited"
    /\ exit_code = 2
    /\ cfg.idle_seconds > 0
    /\ cycle_stops # <<>>
    /\ listed # <<>>
    /\ clock > deadline + SlowestGet

====
